---- MODULE Spec2Model ----
(***************************************************************************)
(* Model of the gestione_documentale database (src/gestione_documentale.sql)*)
(* and of the Svelte prototype that sits in front of it (src/project-app,  *)
(* src/unnamed).  The database part:                                       *)
(* the tables ruoli, permessi, utenti, server, tipi_documento, documenti   *)
(* and log_attivita, the stored procedures sp_registra_log,                *)
(* sp_verifica_permesso and sp_aggiorna_spazio_server, and the three AFTER *)
(* triggers on documenti.  Every SQL statement is one action: the row      *)
(* change, the foreign-key checks and actions, and the trigger it fires.   *)
(***************************************************************************)
EXTENDS Integers, Sequences, FiniteSets, TLC

VARIABLES
    ruoli,      \* table ruoli: the set of id_ruolo present
    permessi,   \* table permessi: id_permesso -> row
    utenti,     \* table utenti: id_utente -> row
    server,     \* table server: id_server -> row
    documenti,  \* table documenti: id_documento -> row
    auto,       \* the AUTO_INCREMENT counter of each table
    last,       \* the last statement executed and how it ended
    tx,         \* per connection: the transaction in flight, if any
    tipi,       \* table tipi_documento: the set of id_tipo present
    log,        \* table log_attivita: id_log -> row
    page,       \* the routes/+page.svelte component and the localStorage item it keeps
    filtersComp,\* the Filters.svelte component, its debounce timer and the clock
    uploadForm  \* the UploadForm component and the submit in flight

\* The state of the browser prototype, which no SQL statement touches.
frontend == <<page, filtersComp, uploadForm>>

vars == <<ruoli, permessi, utenti, server, documenti, auto, last, tx, tipi, log,
          page, filtersComp, uploadForm>>

----------------------------------------------------------------------------
(* Bounds of the model *)

MaxRuoli == 4
MaxPermessi == 4
MaxServer == 2
MaxDocumenti == 2
MaxTrx == 3
MaxTrxLungo == 4
MaxLog == 2

----------------------------------------------------------------------------
(* SQL values *)

\* A nullable column holds <<>> (NULL) or <<v>>.
Null == <<>>
Some(v) == <<v>>
IsNull(x) == x = <<>>
Val(x) == x[1]

\* documenti.stato ENUM; the column is nullable.
Stati == {"bozza", "attivo", "archiviato", "eliminato"}

\* Sizes in bytes used as inputs: 1,000,000 bytes is 0.00093 GB, 5,368,710
\* bytes is just over 0.005 GB.
Dimensioni == {1000000, 5368710}

\* The capability names passed to sp_verifica_permesso: the five the CASE
\* knows and one it does not.
NomiPermesso == {"visualizza", "modifica", "aggiungi", "rimuovi", "gestisci_utenti"}
NomiChiesti == NomiPermesso \cup {"esporta"}

----------------------------------------------------------------------------
(* The state after the script has run: schema plus seed rows *)

PermessoRow(r, v, m, a, x, g) ==
    [id_ruolo |-> r, puo_visualizzare |-> v, puo_modificare |-> m,
     puo_aggiungere |-> a, puo_rimuovere |-> x, gestisce_utenti |-> g]

\* INSERT INTO ruoli: user = 1, admin = 2, manager = 3.
SeedRuoli == {1, 2, 3}

\* ruoli.descrizione of the three seeded roles, as the capabilities each
\* text names: 'può solo visualizzare', 'può visualizzare e modificare',
\* 'visualizza, modifica, aggiunge, rimuove documenti e gestisce utenti'.
SeedDescrizioni ==
    (1 :> {"visualizza"}) @@
    (2 :> {"visualizza", "modifica"}) @@
    (3 :> {"visualizza", "modifica", "aggiungi", "rimuovi", "gestisci_utenti"})

\* INSERT INTO permessi.
SeedPermessi ==
    (1 :> PermessoRow(1, TRUE, FALSE, FALSE, FALSE, FALSE)) @@
    (2 :> PermessoRow(2, TRUE, TRUE, TRUE, TRUE, FALSE)) @@
    (3 :> PermessoRow(3, TRUE, TRUE, TRUE, TRUE, TRUE))

\* INSERT INTO utenti: one manager, two admin, two user, all attivo.
SeedUtenti ==
    (1 :> [id_ruolo |-> 3, attivo |-> TRUE]) @@
    (2 :> [id_ruolo |-> 2, attivo |-> TRUE]) @@
    (3 :> [id_ruolo |-> 2, attivo |-> TRUE]) @@
    (4 :> [id_ruolo |-> 1, attivo |-> TRUE]) @@
    (5 :> [id_ruolo |-> 1, attivo |-> TRUE])

\* INSERT INTO server: 'Server Principale'; spazio_usato_gb takes DEFAULT 0.
\* The figure is kept in hundredths of a GB, the unit of DECIMAL(10,2).
\* capacita_totale_gb is 1000.00; stato takes DEFAULT 'attivo'.
ServerRow(cap, usato, st) ==
    [capacita_totale_gb |-> cap, spazio_usato_gb |-> usato, stato |-> st]

SeedServer == (1 :> ServerRow(Some(100000), 0, "attivo"))

\* INSERT INTO tipi_documento: ten types, id_tipo 1 .. 10.
SeedTipi == 1 .. 10

\* The last statement: what it was, its arguments, how it ended ("ok" or the
\* error raised) and, for a CALL, the value left in its OUT parameter.
StmtOut(op, arg, esito, out) == [op |-> op, arg |-> arg, esito |-> esito, out |-> out]
Stmt(op, arg, esito) == StmtOut(op, arg, esito, Null)

\* Two client connections.
Conn == {"c1", "c2"}

\* A connection with no transaction open.
Idle ==
    [pc |-> "idle", op |-> "none", id |-> 0, old |-> Null, new |-> Null,
     todo |-> << >>, somma |-> 0, spazio |-> << >>,
     slock |-> {}, xlock |-> {}, rlock |-> {}, conc |-> "no"]

\* A JavaScript string is the sequence of its UTF-16 code units: "Ab" is
\* <<65, 98>>, the empty string << >>.  A field that is undefined is kept as
\* the empty string, which every read of it (x || '') makes of it.

\* routes/+page.svelte as constructed: no documents, no filters, loading.
\* variante tells the two copies of the page apart: "frontend" for
\* project-app/frontend/src/routes, "app" for project-app/src/routes.
\* item is the localStorage entry 'docs-proto', errori the number of times
\* localStorage has refused to store it.
PageNew(variante, item) ==
    [variante |-> variante, documents |-> << >>, filtered |-> << >>,
     filters |-> [search |-> << >>, type |-> << >>, status |-> ""],
     loadingError |-> "", isLoading |-> TRUE, mounted |-> FALSE, item |-> item,
     errori |-> 0]

\* localStorage without the entry.
NoItem == [tipo |-> "assente", docs |-> << >>]

\* Filters.svelte as constructed with the default initial values; with it
\* the browser's clock and timer table.
FiltersNew ==
    [search |-> << >>, type |-> << >>, status |-> "", debounceTimer |-> Null,
     timers |-> {}, nextTimer |-> 1, now |-> 0, destroyed |-> FALSE,
     lastInput |-> Null, call |-> Null, calls |-> 0]

\* UploadForm as constructed.  variante: "sync" builds the document and calls
\* onAdd(doc) (src/unnamed/part_000), "await" awaits onAdd(file, metadata)
\* (the copy in Filters.svelte).
UploadFormNew(variante, allowedTypes) ==
    [variante |-> variante, allowedTypes |-> allowedTypes,
     file |-> Null, type |-> << >>, date |-> << >>, client |-> << >>,
     status |-> "attivo", error |-> "", isLoading |-> FALSE,
     pc |-> "idle", submit |-> Null]

\* The database after the script has run.
SeedState ==
    /\ ruoli = SeedRuoli
    /\ permessi = SeedPermessi
    /\ utenti = SeedUtenti
    /\ server = SeedServer
    /\ documenti = << >>
    /\ auto = [ruoli |-> 4, permessi |-> 4, utenti |-> 6, server |-> 2, documenti |-> 1,
               trx |-> 1, tipi |-> 11, log |-> 1]
    /\ last = Stmt("init", << >>, "ok")
    /\ tx = [c \in Conn |-> Idle]
    /\ tipi = SeedTipi
    /\ log = << >>

Init ==
    /\ SeedState
    /\ page = PageNew("frontend", NoItem)
    /\ filtersComp = FiltersNew
    /\ uploadForm = UploadFormNew("sync", {})

----------------------------------------------------------------------------
(* SQL three-valued logic, for the comparisons on nullable columns *)

Ne3(a, b) ==
    IF IsNull(a) \/ IsNull(b) THEN "UNKNOWN"
    ELSE IF Val(a) # Val(b) THEN "TRUE" ELSE "FALSE"

Or3(x, y) ==
    IF x = "TRUE" \/ y = "TRUE" THEN "TRUE"
    ELSE IF x = "UNKNOWN" \/ y = "UNKNOWN" THEN "UNKNOWN" ELSE "FALSE"

----------------------------------------------------------------------------
(* sp_aggiorna_spazio_server *)

RECURSIVE SumOver(_, _)
SumOver(docs, ids) ==
    IF ids = {} THEN 0
    ELSE LET d == CHOOSE x \in ids : TRUE
         IN  Val(docs[d].dimensione_bytes) + SumOver(docs, ids \ {d})

\* The rows the subquery's WHERE keeps.
RigheContate(docs, p) ==
    {d \in DOMAIN docs : docs[d].id_server = p /\ docs[d].stato # "eliminato"}

\* SUM(d.dimensione_bytes): NULL sizes are skipped; no non-NULL value gives NULL.
SumBytes(docs, p) ==
    LET rows == {d \in RigheContate(docs, p) : ~IsNull(docs[d].dimensione_bytes)}
    IN  IF rows = {} THEN Null ELSE Some(SumOver(docs, rows))

\* bytes / 1024 / 1024 / 1024 assigned to DECIMAL(10,2): hundredths of a GB,
\* rounded half up.  floor((100 n + 2^29) / 2^30) = floor((25 n + 2^27) / 2^28).
GbCent(n) == (n * 25 + 1024 * 1024 * 128) \div (1024 * 1024 * 256)

\* COALESCE(SUM(...) / 1024 / 1024 / 1024, 0)
SpazioCalcolato(docs, p) ==
    LET s == SumBytes(docs, p) IN IF IsNull(s) THEN 0 ELSE GbCent(Val(s))

\* A procedure that adds the sum to the stored figure instead of replacing it.
sp_aggiorna_spazio_server_Incrementale(srv, docs, p) ==
    IF p \in DOMAIN srv
    THEN [srv EXCEPT ![p].spazio_usato_gb = @ + SpazioCalcolato(docs, p)]
    ELSE srv

\* UPDATE server SET spazio_usato_gb = (...) WHERE id_server = p_id_server
sp_aggiorna_spazio_server(srv, docs, p) ==
    IF p \in DOMAIN srv
    THEN [srv EXCEPT ![p].spazio_usato_gb = SpazioCalcolato(docs, p)]
    ELSE srv

----------------------------------------------------------------------------
(* Triggers on documenti: each body as the sequence of CALLs it makes *)

\* CALL sp_aggiorna_spazio_server(NEW.id_server)
tr_documento_insert_spazio(new) == <<new.id_server>>

\* A trigger without the IF: every update recalculates.
UpdateCond_Sempre(old, new) == TRUE

\* IF OLD.id_server != NEW.id_server OR OLD.dimensione_bytes != NEW.dimensione_bytes
UpdateCond(old, new) ==
    Or3(Ne3(Some(old.id_server), Some(new.id_server)),
        Ne3(old.dimensione_bytes, new.dimensione_bytes)) = "TRUE"

\* ... THEN CALL sp_aggiorna_spazio_server(OLD.id_server);
\*          CALL sp_aggiorna_spazio_server(NEW.id_server); END IF
tr_documento_update_spazio(old, new) ==
    IF UpdateCond(old, new) THEN <<old.id_server, new.id_server>> ELSE << >>

\* CALL sp_aggiorna_spazio_server(OLD.id_server)
tr_documento_delete_spazio(old) == <<old.id_server>>

\* The server table after the calls have run, in order, on the table docs.
RECURSIVE Esegui(_, _, _)
Esegui(srv, docs, chiamate) ==
    IF chiamate = << >> THEN srv
    ELSE Esegui(sp_aggiorna_spazio_server(srv, docs, Head(chiamate)), docs, Tail(chiamate))

----------------------------------------------------------------------------
(* Statements on documenti and server *)

\* A documenti row: type, location, creator, last modifier (NULL or a user),
\* size (NULL or bytes) and stato.
DocRiga(tipo, srv, creatore, modifica, dim, st) ==
    [id_tipo |-> tipo, id_server |-> srv, id_utente_creatore |-> creatore,
     id_utente_modifica |-> modifica, dimensione_bytes |-> dim, stato |-> st]

\* The row of a document of type 1 created by user 1 and never modified by
\* a user.
DocRow(srv, dim, st) == DocRiga(1, srv, 1, Null, dim, st)

\* log_attivita.id_documento declared ON DELETE CASCADE: the entries of the
\* document go with it.
SetNullDocumento_Cascade(lg, d) ==
    [l \in {x \in DOMAIN lg : lg[x].id_documento # Some(d)} |-> lg[l]]

\* log_attivita.id_documento is ON DELETE SET NULL.
SetNullDocumento(lg, d) ==
    [l \in DOMAIN lg |->
        IF lg[l].id_documento = Some(d) THEN [lg[l] EXCEPT !.id_documento = Null]
        ELSE lg[l]]

DimensioniNullable == {Null} \cup {Some(n) : n \in Dimensioni}

Without(f, k) == [x \in DOMAIN f \ {k} |-> f[x]]

\* INSERT INTO documenti (..., id_server, dimensione_bytes, stato) VALUES (...)
InsertDocumento(srv, dim, st) ==
    /\ auto.documenti <= MaxDocumenti
    /\ IF srv \in DOMAIN server
       THEN LET id == auto.documenti
                docs == documenti @@ (id :> DocRow(srv, dim, st))
            IN  /\ documenti' = docs
                /\ server' = Esegui(server, docs, tr_documento_insert_spazio(docs[id]))
                /\ auto' = [auto EXCEPT !.documenti = id + 1]
                /\ last' = Stmt("insert_documento", <<id>>, "ok")
       ELSE /\ last' = Stmt("insert_documento", << >>, "ER_NO_REFERENCED_ROW")
            /\ UNCHANGED <<documenti, server, auto>>
    /\ UNCHANGED <<ruoli, permessi, utenti, tx, tipi, log, frontend>>

\* UPDATE documenti SET id_server = .., dimensione_bytes = .., stato = .. WHERE id_documento = d
UpdateDocumento(d, srv, dim, st) ==
    /\ d \in DOMAIN documenti
    /\ IF srv \in DOMAIN server
       THEN LET docs == [documenti EXCEPT ![d].id_server = srv,
                                           ![d].dimensione_bytes = dim,
                                           ![d].stato = st]
            IN  /\ documenti' = docs
                /\ server' = Esegui(server, docs, tr_documento_update_spazio(documenti[d], docs[d]))
                /\ last' = Stmt("update_documento", <<d>>, "ok")
       ELSE /\ last' = Stmt("update_documento", <<d>>, "ER_NO_REFERENCED_ROW")
            /\ UNCHANGED <<documenti, server>>
    /\ UNCHANGED <<ruoli, permessi, utenti, auto, tx, tipi, log, frontend>>

\* DELETE FROM documenti WHERE id_documento = d
DeleteDocumento(d) ==
    /\ d \in DOMAIN documenti
    /\ LET docs == Without(documenti, d)
       IN  /\ documenti' = docs
           /\ server' = Esegui(server, docs, tr_documento_delete_spazio(documenti[d]))
    /\ log' = SetNullDocumento(log, d)
    /\ last' = Stmt("delete_documento", <<d>>, "ok")
    /\ UNCHANGED <<ruoli, permessi, utenti, auto, tx, tipi, frontend>>

\* INSERT INTO server (nome_server, percorso_base, ...) VALUES (...)
InsertServer ==
    /\ auto.server <= MaxServer
    /\ server' = server @@ (auto.server :> ServerRow(Null, 0, "attivo"))
    /\ auto' = [auto EXCEPT !.server = auto.server + 1]
    /\ last' = Stmt("insert_server", <<auto.server>>, "ok")
    /\ UNCHANGED <<ruoli, permessi, utenti, documenti, tx, tipi, log, frontend>>

\* DELETE FROM server WHERE id_server = s; documenti.id_server is ON DELETE RESTRICT.
DeleteServer(s) ==
    /\ s \in DOMAIN server
    /\ IF \E d \in DOMAIN documenti : documenti[d].id_server = s
       THEN /\ last' = Stmt("delete_server", <<s>>, "ER_ROW_IS_REFERENCED")
            /\ UNCHANGED server
       ELSE /\ server' = Without(server, s)
            /\ last' = Stmt("delete_server", <<s>>, "ok")
    /\ UNCHANGED <<ruoli, permessi, utenti, documenti, auto, tx, tipi, log, frontend>>

\* CALL sp_aggiorna_spazio_server(p), issued by a client
CallAggiornaSpazio(p) ==
    /\ server' = sp_aggiorna_spazio_server(server, documenti, p)
    /\ last' = Stmt("sp_aggiorna_spazio_server", <<p>>, "ok")
    /\ UNCHANGED <<ruoli, permessi, utenti, documenti, auto, tx, tipi, log, frontend>>

ServerIds == 1 .. MaxServer
DocIds == 1 .. MaxDocumenti

NextDoc ==
    \/ \E srv \in ServerIds, dim \in DimensioniNullable, st \in Stati :
           InsertDocumento(srv, dim, st)
    \/ \E d \in DocIds, srv \in ServerIds, dim \in DimensioniNullable, st \in Stati :
           UpdateDocumento(d, srv, dim, st)
    \/ \E d \in DocIds : DeleteDocumento(d)
    \/ InsertServer
    \/ \E s \in ServerIds : DeleteServer(s)

\* Document and storage-location statements, one at a time (autocommit).
SpecDoc == Init /\ [][NextDoc]_vars

\* The stati and sizes of the statements below: live or soft-deleted, 0.005
\* GB or unset; an UPDATE sets the size of a row or its stato.
StatiAggiorna == {"attivo", "eliminato"}
DimAggiorna == {Null, Some(5368710)}

NextAggiorna ==
    \/ \E srv \in ServerIds, dim \in DimAggiorna : InsertDocumento(srv, dim, "attivo")
    \/ \E d \in DOMAIN documenti, dim \in DimAggiorna :
           UpdateDocumento(d, documenti[d].id_server, dim, documenti[d].stato)
    \/ \E d \in DOMAIN documenti, st \in StatiAggiorna :
           UpdateDocumento(d, documenti[d].id_server, documenti[d].dimensione_bytes, st)
    \/ InsertServer
    \/ \E p \in ServerIds : CallAggiornaSpazio(p)

\* Document statements, and clients that call the recalculation themselves.
SpecAggiorna == Init /\ [][NextAggiorna]_vars

----------------------------------------------------------------------------
(* sp_verifica_permesso *)

\* A CASE whose last branch reads the wrong column.
CasePermesso_ColonnaSbagliata(p_permesso, p) ==
    CASE p_permesso = "visualizza" -> p.puo_visualizzare
      [] p_permesso = "modifica" -> p.puo_modificare
      [] p_permesso = "aggiungi" -> p.puo_aggiungere
      [] p_permesso = "rimuovi" -> p.puo_rimuovere
      [] p_permesso = "gestisci_utenti" -> p.puo_rimuovere
      [] OTHER -> FALSE

\* CASE p_permesso WHEN ... THEN p.<column> ... ELSE FALSE END
CasePermesso(p_permesso, p) ==
    CASE p_permesso = "visualizza" -> p.puo_visualizzare
      [] p_permesso = "modifica" -> p.puo_modificare
      [] p_permesso = "aggiungi" -> p.puo_aggiungere
      [] p_permesso = "rimuovi" -> p.puo_rimuovere
      [] p_permesso = "gestisci_utenti" -> p.gestisce_utenti
      [] OTHER -> FALSE

\* The join without "AND u.attivo = TRUE".
RighePermesso_SenzaAttivo(ut, pm, p_id_utente) ==
    {p \in DOMAIN pm : /\ p_id_utente \in DOMAIN ut
                       /\ pm[p].id_ruolo = ut[p_id_utente].id_ruolo}

\* FROM utenti u JOIN permessi p ON u.id_ruolo = p.id_ruolo
\* WHERE u.id_utente = p_id_utente AND u.attivo = TRUE
RighePermesso(ut, pm, p_id_utente) ==
    {p \in DOMAIN pm : /\ p_id_utente \in DOMAIN ut
                       /\ ut[p_id_utente].attivo = TRUE
                       /\ pm[p].id_ruolo = ut[p_id_utente].id_ruolo}

\* The CALL's outcome: esito is "ok" or the error that ends the procedure,
\* out is p_autorizzato (left unset when the procedure fails).  SELECT ... INTO
\* keeps v_permesso at its DEFAULT FALSE when no row is found and fails with
\* ER_TOO_MANY_ROWS when the join yields more than one row.
sp_verifica_permesso(ut, pm, p_id_utente, p_permesso) ==
    LET rows == RighePermesso(ut, pm, p_id_utente) IN
    IF rows = {} THEN [esito |-> "ok", out |-> Some(FALSE)]
    ELSE IF Cardinality(rows) > 1 THEN [esito |-> "ER_TOO_MANY_ROWS", out |-> Null]
    ELSE LET p == CHOOSE x \in rows : TRUE
         IN  [esito |-> "ok", out |-> Some(CasePermesso(p_permesso, pm[p]))]

----------------------------------------------------------------------------
(* Statements on ruoli, permessi and utenti *)

\* The flags an INSERT INTO permessi gives: the column DEFAULTs (all FALSE)
\* or every capability.
FlagScelte == {<<FALSE, FALSE, FALSE, FALSE, FALSE>>, <<TRUE, TRUE, TRUE, TRUE, TRUE>>}

\* INSERT INTO ruoli (nome_ruolo) VALUES (<a new name>)
InsertRuolo ==
    /\ auto.ruoli <= MaxRuoli
    /\ ruoli' = ruoli \cup {auto.ruoli}
    /\ auto' = [auto EXCEPT !.ruoli = auto.ruoli + 1]
    /\ last' = Stmt("insert_ruolo", <<auto.ruoli>>, "ok")
    /\ UNCHANGED <<permessi, utenti, server, documenti, tx, tipi, log, frontend>>

\* DELETE FROM ruoli with utenti.id_ruolo declared ON DELETE CASCADE: the
\* role's users go with it.
DeleteRuolo_CascadeUtenti(r) ==
    /\ r \in ruoli
    /\ ruoli' = ruoli \ {r}
    /\ permessi' = [p \in {x \in DOMAIN permessi : permessi[x].id_ruolo # r}
                      |-> permessi[p]]
    /\ utenti' = [u \in {x \in DOMAIN utenti : utenti[x].id_ruolo # r} |-> utenti[u]]
    /\ last' = Stmt("delete_ruolo", <<r>>, "ok")
    /\ UNCHANGED <<server, documenti, auto, tx, tipi, log, frontend>>

\* DELETE FROM ruoli WHERE id_ruolo = r: utenti.id_ruolo is ON DELETE RESTRICT,
\* permessi.id_ruolo is ON DELETE CASCADE.
DeleteRuolo(r) ==
    /\ r \in ruoli
    /\ IF \E u \in DOMAIN utenti : utenti[u].id_ruolo = r
       THEN /\ last' = Stmt("delete_ruolo", <<r>>, "ER_ROW_IS_REFERENCED")
            /\ UNCHANGED <<ruoli, permessi>>
       ELSE /\ ruoli' = ruoli \ {r}
            /\ permessi' = [p \in {x \in DOMAIN permessi : permessi[x].id_ruolo # r}
                              |-> permessi[p]]
            /\ last' = Stmt("delete_ruolo", <<r>>, "ok")
    /\ UNCHANGED <<utenti, server, documenti, auto, tx, tipi, log, frontend>>

\* INSERT INTO permessi (id_ruolo, puo_visualizzare, ...) VALUES (r, ...)
InsertPermesso(r, f) ==
    /\ auto.permessi <= MaxPermessi
    /\ IF r \in ruoli
       THEN /\ permessi' = permessi @@
                  (auto.permessi :> PermessoRow(r, f[1], f[2], f[3], f[4], f[5]))
            /\ auto' = [auto EXCEPT !.permessi = auto.permessi + 1]
            /\ last' = Stmt("insert_permesso", <<auto.permessi>>, "ok")
       ELSE /\ last' = Stmt("insert_permesso", << >>, "ER_NO_REFERENCED_ROW")
            /\ UNCHANGED <<permessi, auto>>
    /\ UNCHANGED <<ruoli, utenti, server, documenti, tx, tipi, log, frontend>>

\* DELETE FROM permessi WHERE id_permesso = p
DeletePermesso(p) ==
    /\ p \in DOMAIN permessi
    /\ permessi' = Without(permessi, p)
    /\ last' = Stmt("delete_permesso", <<p>>, "ok")
    /\ UNCHANGED <<ruoli, utenti, server, documenti, auto, tx, tipi, log, frontend>>

\* UPDATE utenti SET attivo = a WHERE id_utente = u
UpdateUtenteAttivo(u, a) ==
    /\ u \in DOMAIN utenti
    /\ utenti' = [utenti EXCEPT ![u].attivo = a]
    /\ last' = Stmt("update_utente", <<u>>, "ok")
    /\ UNCHANGED <<ruoli, permessi, server, documenti, auto, tx, tipi, log, frontend>>

\* CALL sp_verifica_permesso(u, nome, @autorizzato)
CallVerificaPermesso(u, nome) ==
    /\ LET r == sp_verifica_permesso(utenti, permessi, u, nome)
       IN  last' = StmtOut("sp_verifica_permesso", <<u, nome>>, r.esito, r.out)
    /\ UNCHANGED <<ruoli, permessi, utenti, server, documenti, auto, tx, tipi, log, frontend>>

\* documenti.id_utente_modifica declared ON DELETE CASCADE: the documents the
\* user modified last go with the user.
SetNullModifica_Cascade(docs, u) ==
    [d \in {x \in DOMAIN docs : docs[x].id_utente_modifica # Some(u)} |-> docs[d]]

\* documenti.id_utente_modifica and log_attivita.id_utente are ON DELETE SET NULL.
SetNullModifica(docs, u) ==
    [d \in DOMAIN docs |->
        IF docs[d].id_utente_modifica = Some(u)
        THEN [docs[d] EXCEPT !.id_utente_modifica = Null] ELSE docs[d]]

SetNullUtente(lg, u) ==
    [l \in DOMAIN lg |->
        IF lg[l].id_utente = Some(u) THEN [lg[l] EXCEPT !.id_utente = Null] ELSE lg[l]]

\* DELETE FROM utenti WHERE id_utente = u: documenti.id_utente_creatore is
\* ON DELETE RESTRICT; the SET NULL of a foreign key fires no trigger.
DeleteUtente(u) ==
    /\ u \in DOMAIN utenti
    /\ IF \E d \in DOMAIN documenti : documenti[d].id_utente_creatore = u
       THEN /\ last' = Stmt("delete_utente", <<u>>, "ER_ROW_IS_REFERENCED")
            /\ UNCHANGED <<utenti, documenti, log>>
       ELSE /\ utenti' = Without(utenti, u)
            /\ documenti' = SetNullModifica(documenti, u)
            /\ log' = SetNullUtente(log, u)
            /\ last' = Stmt("delete_utente", <<u>>, "ok")
    /\ UNCHANGED <<ruoli, permessi, server, auto, tx, tipi, frontend>>

RuoloIds == 1 .. MaxRuoli
PermessoIds == 1 .. MaxPermessi

NextPerm ==
    \/ InsertRuolo
    \/ \E r \in RuoloIds : DeleteRuolo(r)
    \/ \E r \in RuoloIds, f \in FlagScelte : InsertPermesso(r, f)
    \/ \E p \in PermessoIds : DeletePermesso(p)

\* Administration of roles and permission rows, with the seeded users.
SpecPerm == Init /\ [][NextPerm]_vars

NextRuoli ==
    \/ InsertRuolo
    \/ \E r \in RuoloIds : DeleteRuolo(r)
    \/ \E r \in RuoloIds, f \in FlagScelte : InsertPermesso(r, f)
    \/ \E u \in DOMAIN SeedUtenti : DeleteUtente(u)

\* Roles are added and deleted while users are deleted.
SpecRuoli == Init /\ [][NextRuoli]_vars

----------------------------------------------------------------------------
(* Statements that name the type, the creator and the modifying user *)

\* INSERT INTO documenti (..., id_tipo, id_server, id_utente_creatore,
\* dimensione_bytes, stato) VALUES (...): the three foreign keys are checked,
\* then the AFTER INSERT trigger runs.
InsertDocumentoDi(tipo, srv, creatore, dim, st) ==
    /\ auto.documenti <= MaxDocumenti
    /\ IF tipo \in tipi /\ srv \in DOMAIN server /\ creatore \in DOMAIN utenti
       THEN LET id == auto.documenti
                docs == documenti @@ (id :> DocRiga(tipo, srv, creatore, Null, dim, st))
            IN  /\ documenti' = docs
                /\ server' = Esegui(server, docs, tr_documento_insert_spazio(docs[id]))
                /\ auto' = [auto EXCEPT !.documenti = id + 1]
                /\ last' = Stmt("insert_documento", <<id>>, "ok")
       ELSE /\ last' = Stmt("insert_documento", << >>, "ER_NO_REFERENCED_ROW")
            /\ UNCHANGED <<documenti, server, auto>>
    /\ UNCHANGED <<ruoli, permessi, utenti, tx, tipi, log, frontend>>

\* UPDATE documenti SET id_server = .., dimensione_bytes = .., stato = ..,
\* id_utente_modifica = u WHERE id_documento = d
UpdateDocumentoDa(u, d, srv, dim, st) ==
    /\ d \in DOMAIN documenti
    /\ IF srv \in DOMAIN server /\ u \in DOMAIN utenti
       THEN LET docs == [documenti EXCEPT ![d].id_server = srv,
                                           ![d].dimensione_bytes = dim,
                                           ![d].stato = st,
                                           ![d].id_utente_modifica = Some(u)]
            IN  /\ documenti' = docs
                /\ server' = Esegui(server, docs, tr_documento_update_spazio(documenti[d], docs[d]))
                /\ last' = Stmt("update_documento", <<d>>, "ok")
       ELSE /\ last' = Stmt("update_documento", <<d>>, "ER_NO_REFERENCED_ROW")
            /\ UNCHANGED <<documenti, server>>
    /\ UNCHANGED <<ruoli, permessi, utenti, auto, tx, tipi, log, frontend>>

\* DELETE FROM tipi_documento with documenti.id_tipo declared ON DELETE
\* CASCADE: the documents of the type go with it, no trigger running.
DeleteTipo_Cascade(t) ==
    /\ t \in tipi
    /\ tipi' = tipi \ {t}
    /\ documenti' = [d \in {x \in DOMAIN documenti : documenti[x].id_tipo # t}
                       |-> documenti[d]]
    /\ last' = Stmt("delete_tipo", <<t>>, "ok")
    /\ UNCHANGED <<ruoli, permessi, utenti, server, auto, tx, log, frontend>>

\* DELETE FROM tipi_documento WHERE id_tipo = t; documenti.id_tipo is
\* ON DELETE RESTRICT, whatever the stato of the referencing rows.
DeleteTipo(t) ==
    /\ t \in tipi
    /\ IF \E d \in DOMAIN documenti : documenti[d].id_tipo = t
       THEN /\ last' = Stmt("delete_tipo", <<t>>, "ER_ROW_IS_REFERENCED")
            /\ UNCHANGED tipi
       ELSE /\ tipi' = tipi \ {t}
            /\ last' = Stmt("delete_tipo", <<t>>, "ok")
    /\ UNCHANGED <<ruoli, permessi, utenti, server, documenti, auto, tx, log, frontend>>

\* The values of log_attivita.azione.
Azioni ==
    {"login", "logout", "visualizza", "crea", "modifica", "elimina", "download",
     "upload", "ripristina", "gestione_utenti"}

\* The row sp_registra_log inserts: the two snapshot columns are not in its
\* column list and stay NULL; timestamp takes CURRENT_TIMESTAMP, kept here as
\* the order of the insert.
LogRow(u, d, azione, descrizione, quando) ==
    [id_utente |-> u, id_documento |-> d, azione |-> azione, descrizione |-> descrizione,
     dati_precedenti |-> Null, dati_nuovi |-> Null, timestamp |-> quando]

\* A procedure whose failure takes the documents and their figures with it.
sp_registra_log_Annulla(u, d, azione, descrizione) ==
    /\ auto.log <= MaxLog
    /\ IF \/ azione \notin Azioni
          \/ ~IsNull(u) /\ Val(u) \notin DOMAIN utenti
          \/ ~IsNull(d) /\ Val(d) \notin DOMAIN documenti
       THEN /\ last' = Stmt("sp_registra_log", << >>, "ER_NO_REFERENCED_ROW")
            /\ documenti' = << >>
            /\ server' = [s \in DOMAIN server |-> [server[s] EXCEPT !.spazio_usato_gb = 0]]
            /\ UNCHANGED <<log, auto>>
       ELSE /\ log' = log @@ (auto.log :> LogRow(u, d, azione, descrizione, auto.log))
            /\ auto' = [auto EXCEPT !.log = auto.log + 1]
            /\ last' = Stmt("sp_registra_log", <<auto.log>>, "ok")
            /\ UNCHANGED <<documenti, server>>
    /\ UNCHANGED <<ruoli, permessi, utenti, tx, tipi, frontend>>

\* CALL sp_registra_log(u, d, azione, descrizione, ip, user_agent): u and d
\* are NULL or an id; the two foreign keys and the ENUM are checked.
sp_registra_log(u, d, azione, descrizione) ==
    /\ auto.log <= MaxLog
    /\ IF azione \notin Azioni
       THEN /\ last' = Stmt("sp_registra_log", << >>, "WARN_DATA_TRUNCATED")
            /\ UNCHANGED <<log, auto>>
       ELSE IF \/ ~IsNull(u) /\ Val(u) \notin DOMAIN utenti
               \/ ~IsNull(d) /\ Val(d) \notin DOMAIN documenti
       THEN /\ last' = Stmt("sp_registra_log", << >>, "ER_NO_REFERENCED_ROW")
            /\ UNCHANGED <<log, auto>>
       ELSE /\ log' = log @@ (auto.log :> LogRow(u, d, azione, descrizione, auto.log))
            /\ auto' = [auto EXCEPT !.log = auto.log + 1]
            /\ last' = Stmt("sp_registra_log", <<auto.log>>, "ok")
    /\ UNCHANGED <<ruoli, permessi, utenti, server, documenti, tx, tipi, frontend>>

\* The types, sizes and stati the statements below choose among.
TipiScelti == {1, 2}
DimRif == {Some(5368710)}
StatiRif == {"attivo", "eliminato"}

NextRif ==
    \/ \E t \in TipiScelti, srv \in ServerIds, st \in StatiRif, dim \in DimRif :
           InsertDocumentoDi(t, srv, 1, dim, st)
    \/ \E d \in DocIds, st \in StatiRif :
           /\ d \in DOMAIN documenti
           /\ UpdateDocumentoDa(1, d, documenti[d].id_server, documenti[d].dimensione_bytes, st)
    \/ \E d \in DocIds : DeleteDocumento(d)
    \/ \E t \in TipiScelti : DeleteTipo(t)
    \/ \E s \in ServerIds : DeleteServer(s)

\* Document types and storage locations are deleted while documents of
\* either stato reference them.
SpecRif == Init /\ [][NextRif]_vars

\* The users acting below: the manager (1) and a plain user (4).
Attori == {1, 4}
AzioniScelte == {"crea", "esporta"}

NextUtenti ==
    \/ \E u \in Attori, dim \in DimRif : InsertDocumentoDi(1, 1, u, dim, "attivo")
    \/ \E u \in Attori, d \in DocIds, st \in StatiRif :
           /\ d \in DOMAIN documenti
           /\ UpdateDocumentoDa(u, d, documenti[d].id_server, documenti[d].dimensione_bytes, st)
    \/ \E d \in DocIds : DeleteDocumento(d)
    \/ \E u \in Attori : DeleteUtente(u)

\* Users create, modify and delete documents and are deleted.
SpecUtenti == Init /\ [][NextUtenti]_vars

\* The caller's p_descrizione is kept as the document the text is about.
NextLog ==
    \/ \E u \in Attori, dim \in DimRif : InsertDocumentoDi(1, 1, u, dim, "attivo")
    \/ \E d \in DocIds : DeleteDocumento(d)
    \/ \E u \in Attori : DeleteUtente(u)
    \/ \E u \in {Null} \cup {Some(x) : x \in Attori},
          d \in {Null} \cup {Some(x) : x \in DocIds},
          a \in AzioniScelte :
           sp_registra_log(u, d, a, d)

\* Log entries are written about users and documents, which are then
\* deleted.
SpecLog == Init /\ [][NextLog]_vars

\* Maintenance (note 4 of the script): old rows of log_attivita are deleted,
\* DELETE FROM log_attivita WHERE timestamp < quando.
PulisciLog(quando) ==
    /\ \E l \in DOMAIN log : log[l].timestamp < quando
    /\ log' = [l \in {x \in DOMAIN log : ~(log[x].timestamp < quando)} |-> log[l]]
    /\ last' = Stmt("pulisci_log", <<quando>>, "ok")
    /\ UNCHANGED <<ruoli, permessi, utenti, server, documenti, auto, tx, tipi, frontend>>

AzioniAudit == {"crea", "elimina"}

NextAudit ==
    \/ \E u \in Attori, dim \in DimRif : InsertDocumentoDi(1, 1, u, dim, "attivo")
    \/ \E u \in Attori, d \in DocIds, st \in StatiRif :
           /\ d \in DOMAIN documenti
           /\ UpdateDocumentoDa(u, d, documenti[d].id_server, documenti[d].dimensione_bytes, st)
    \/ \E d \in DocIds : DeleteDocumento(d)
    \/ \E u \in Attori, a \in BOOLEAN : UpdateUtenteAttivo(u, a)
    \/ \E u \in {Some(x) : x \in Attori}, d \in {Some(x) : x \in DocIds}, a \in AzioniAudit :
           sp_registra_log(u, d, a, d)
    \/ \E quando \in 1 .. MaxLog + 1 : PulisciLog(quando)

\* Active and deactivated users work on documents; callers write log
\* entries about it; the log is cleaned from time to time.
SpecAudit == Init /\ [][NextAudit]_vars

\* UPDATE server SET stato = st, capacita_totale_gb = cap WHERE id_server = s
UpdateServer(s, st, cap) ==
    /\ s \in DOMAIN server
    /\ server' = [server EXCEPT ![s].stato = st, ![s].capacita_totale_gb = cap]
    /\ last' = Stmt("update_server", <<s>>, "ok")
    /\ UNCHANGED <<ruoli, permessi, utenti, documenti, auto, tx, tipi, log, frontend>>

\* server.stato, and capacities of 0.01 GB and of 1000.00 GB.
StatiServer == {"attivo", "manutenzione", "offline"}
Capacita == {Some(1), Some(100000)}

\* Documents of 0.01 GB.
DimServer == {Some(10737418)}

NextServer ==
    \/ InsertServer
    \/ \E s \in ServerIds, st \in StatiServer :
           /\ s \in DOMAIN server
           /\ UpdateServer(s, st, server[s].capacita_totale_gb)
    \/ \E s \in ServerIds, cap \in Capacita :
           /\ s \in DOMAIN server
           /\ UpdateServer(s, server[s].stato, cap)
    \/ \E srv \in ServerIds, dim \in DimServer, st \in StatiRif :
           InsertDocumentoDi(1, srv, 1, dim, st)
    \/ \E d \in DocIds, srv \in ServerIds :
           /\ d \in DOMAIN documenti
           /\ UpdateDocumentoDa(1, d, srv, documenti[d].dimensione_bytes, documenti[d].stato)
    \/ \E d \in DocIds, st \in StatiRif :
           /\ d \in DOMAIN documenti
           /\ UpdateDocumentoDa(1, d, documenti[d].id_server, documenti[d].dimensione_bytes, st)

\* Locations are taken offline and given a capacity while documents are
\* created on them, moved and soft-deleted or restored.
SpecServer == Init /\ [][NextServer]_vars

NextVerifica ==
    \/ \E r \in RuoloIds, f \in FlagScelte : InsertPermesso(r, f)
    \/ \E u \in DOMAIN utenti, a \in BOOLEAN : UpdateUtenteAttivo(u, a)
    \/ \E u \in 1 .. auto.utenti, nome \in NomiChiesti : CallVerificaPermesso(u, nome)

\* Permission checks, for existing and missing users and every capability
\* name, while users are (de)activated and permission rows are added.
SpecVerifica == Init /\ [][NextVerifica]_vars

----------------------------------------------------------------------------
(* Concurrent transactions on documenti (ENGINE=InnoDB, default isolation). *)
(* A transaction is one statement on documenti; its steps are the row      *)
(* change, then for each CALL of the trigger body: the X lock on the       *)
(* server row the UPDATE is about, the subquery's read of documenti, the   *)
(* write of spazio_usato_gb; then COMMIT.  Row changes and figures stay    *)
(* private to the connection until COMMIT; locks are held until it ends.   *)
(* The subquery of an UPDATE is a locking read: it sees the committed rows *)
(* and the connection's own change, and it waits for rows that another     *)
(* connection has changed and not yet committed.                           *)

Altri(c) == Conn \ {c}

InVolo(c) == tx[c].pc # "idle"

\* The uncommitted row change of connection c is on a row that is, or was,
\* at location p.
Tocca(c, p) ==
    /\ InVolo(c)
    /\ \/ ~IsNull(tx[c].old) /\ Val(tx[c].old).id_server = p
       \/ ~IsNull(tx[c].new) /\ Val(tx[c].new).id_server = p

\* documenti as connection c reads it: committed rows plus its own change.
DocsView(c) ==
    IF ~IsNull(tx[c].new)
    THEN [d \in DOMAIN documenti \cup {tx[c].id} |->
             IF d = tx[c].id THEN Val(tx[c].new) ELSE documenti[d]]
    ELSE IF ~IsNull(tx[c].old) THEN Without(documenti, tx[c].id)
    ELSE documenti

\* The row change is made: remember it, and the CALLs the trigger will make.
\* conc notes that the transaction runs while the other connection has an
\* uncommitted change on one of the same locations.
Aperta(c, op, id, old, new, chiamate, fk) ==
    LET locs == {r.id_server : r \in {Val(x) : x \in {old, new} \ {Null}}}
        insieme == \E o \in Altri(c) : \E p \in locs : Tocca(o, p)
    IN  [o \in Conn |->
           IF o = c
           THEN [Idle EXCEPT !.pc = IF chiamate = << >> THEN "done" ELSE "row",
                             !.op = op, !.id = id, !.old = old, !.new = new,
                             !.todo = chiamate, !.slock = fk,
                             !.conc = IF insieme THEN "overlap" ELSE "no"]
           ELSE IF insieme /\ tx[o].conc = "no"
                THEN [tx[o] EXCEPT !.conc = "overlap"]
                ELSE tx[o]]

\* No other connection holds the X lock on server row p (the foreign-key
\* check of a child row takes an S lock on the parent).
ServerLeggibile(c, p) == \A o \in Altri(c) : p \notin tx[o].xlock

\* No other connection has read-locked the documenti rows of location p.
RangeLibero(c, p) == \A o \in Altri(c) : p \notin tx[o].rlock

\* No other connection has an uncommitted change on row d.
RigaLibera(c, d) == \A o \in Altri(c) : ~(InVolo(o) /\ tx[o].id = d)

\* INSERT INTO documenti ... on connection c
TxInsert(c, srv, dim, st) ==
    /\ ~InVolo(c)
    /\ auto.documenti <= MaxDocumenti
    /\ srv \in DOMAIN server
    /\ ServerLeggibile(c, srv)
    /\ RangeLibero(c, srv)
    /\ LET new == DocRow(srv, dim, st)
       IN  tx' = Aperta(c, "insert_documento", auto.documenti, Null, Some(new),
                        tr_documento_insert_spazio(new), {srv})
    /\ auto' = [auto EXCEPT !.documenti = auto.documenti + 1, !.trx = auto.trx + 1]
    /\ UNCHANGED <<ruoli, permessi, utenti, server, documenti, last, tipi, log, frontend>>

\* UPDATE documenti SET ... WHERE id_documento = d on connection c
TxUpdate(c, d, srv, dim, st) ==
    /\ ~InVolo(c)
    /\ d \in DOMAIN documenti
    /\ RigaLibera(c, d)
    /\ srv \in DOMAIN server
    /\ RangeLibero(c, documenti[d].id_server)
    /\ RangeLibero(c, srv)
    /\ srv # documenti[d].id_server => ServerLeggibile(c, srv)
    /\ LET old == documenti[d]
           new == [old EXCEPT !.id_server = srv, !.dimensione_bytes = dim, !.stato = st]
       IN  tx' = Aperta(c, "update_documento", d, Some(old), Some(new),
                        tr_documento_update_spazio(old, new),
                        IF srv # old.id_server THEN {srv} ELSE {})
    /\ auto' = [auto EXCEPT !.trx = auto.trx + 1]
    /\ UNCHANGED <<ruoli, permessi, utenti, server, documenti, last, tipi, log, frontend>>

\* DELETE FROM documenti WHERE id_documento = d on connection c
TxDelete(c, d) ==
    /\ ~InVolo(c)
    /\ d \in DOMAIN documenti
    /\ RigaLibera(c, d)
    /\ RangeLibero(c, documenti[d].id_server)
    /\ tx' = Aperta(c, "delete_documento", d, Some(documenti[d]), Null,
                    tr_documento_delete_spazio(documenti[d]), {})
    /\ auto' = [auto EXCEPT !.trx = auto.trx + 1]
    /\ UNCHANGED <<ruoli, permessi, utenti, server, documenti, last, tipi, log, frontend>>

\* UPDATE server s ... WHERE s.id_server = p_id_server: the row is X-locked.
TxLock(c) ==
    /\ tx[c].pc = "row"
    /\ LET p == Head(tx[c].todo)
       IN  /\ \A o \in Altri(c) : p \notin tx[o].xlock \cup tx[o].slock
           /\ tx' = [tx EXCEPT ![c].pc = "locked", ![c].xlock = @ \cup {p}]
    /\ UNCHANGED <<ruoli, permessi, utenti, server, documenti, auto, last, tipi, log, frontend>>

\* (SELECT COALESCE(SUM(...) / 1024 / 1024 / 1024, 0) FROM documenti d WHERE ...)
TxRead(c) ==
    /\ tx[c].pc = "locked"
    /\ LET p == Head(tx[c].todo)
       IN  /\ \A o \in Altri(c) : ~Tocca(o, p)
           /\ tx' = [tx EXCEPT ![c].pc = "read",
                               ![c].somma = SpazioCalcolato(DocsView(c), p),
                               ![c].rlock = @ \cup {p}]
    /\ UNCHANGED <<ruoli, permessi, utenti, server, documenti, auto, last, tipi, log, frontend>>

\* SET spazio_usato_gb = <the value read>
TxWriteBack(c) ==
    /\ tx[c].pc = "read"
    /\ LET p == Head(tx[c].todo)
           rest == Tail(tx[c].todo)
       IN  tx' = [tx EXCEPT ![c].pc = IF rest = << >> THEN "done" ELSE "row",
                            ![c].todo = rest,
                            ![c].spazio = (p :> tx[c].somma) @@ @]
    /\ UNCHANGED <<ruoli, permessi, utenti, server, documenti, auto, last, tipi, log, frontend>>

\* A COMMIT that leaves the figures for a later, separate transaction.
Pubblica_DopoIlCommit(srv, spazio) == srv

\* What COMMIT publishes of the server table.
Pubblica(srv, spazio) ==
    [p \in DOMAIN srv |->
        IF p \in DOMAIN spazio THEN [srv[p] EXCEPT !.spazio_usato_gb = spazio[p]]
        ELSE srv[p]]

\* COMMIT (the end of the statement under autocommit)
TxCommit(c) ==
    /\ tx[c].pc = "done"
    /\ documenti' = DocsView(c)
    /\ server' = Pubblica(server, tx[c].spazio)
    /\ tx' = [o \in Conn |->
                IF o = c THEN Idle
                ELSE IF tx[o].conc = "overlap"
                     THEN [tx[o] EXCEPT !.conc = "peer_committed"]
                     ELSE tx[o]]
    /\ log' = IF tx[c].op = "delete_documento" THEN SetNullDocumento(log, tx[c].id)
              ELSE log
    /\ last' = Stmt(tx[c].op, <<tx[c].id>>, "ok")
    /\ UNCHANGED <<ruoli, permessi, utenti, auto, tipi, frontend>>

\* ROLLBACK: the deadlock victim, or a client that gives up.
TxRollback(c) ==
    /\ InVolo(c)
    /\ tx' = [o \in Conn |->
                IF o = c THEN Idle
                ELSE IF tx[o].conc = "overlap" THEN [tx[o] EXCEPT !.conc = "no"]
                     ELSE tx[o]]
    /\ last' = Stmt(tx[c].op, <<tx[c].id>>, "ER_LOCK_DEADLOCK")
    /\ UNCHANGED <<ruoli, permessi, utenti, server, documenti, auto, tipi, log, frontend>>

\* The statements the two connections issue: documents of 0.01 GB, live or
\* soft-deleted; an UPDATE moves a row or sets its stato.
DimTx == {Some(10737418)}
StatiTx == {"attivo", "eliminato"}

\* A connection issues its statement; n caps the statements issued in all.
Avvia(n) ==
    /\ auto.trx <= n
    /\ \/ \E c \in Conn, srv \in ServerIds, dim \in DimTx, st \in StatiTx :
              TxInsert(c, srv, dim, st)
       \/ \E c \in Conn, d \in DOMAIN documenti, srv \in ServerIds :
              TxUpdate(c, d, srv, documenti[d].dimensione_bytes, documenti[d].stato)
       \/ \E c \in Conn, d \in DOMAIN documenti, st \in StatiTx :
              TxUpdate(c, d, documenti[d].id_server, documenti[d].dimensione_bytes, st)
       \/ \E c \in Conn, d \in DocIds : TxDelete(c, d)

\* A statement in flight takes its next step.
Prosegue ==
    \/ \E c \in Conn : TxLock(c)
    \/ \E c \in Conn : TxRead(c)
    \/ \E c \in Conn : TxWriteBack(c)
    \/ \E c \in Conn : TxCommit(c)
    \/ \E c \in Conn : TxRollback(c)

NextTx ==
    \/ Avvia(MaxTrx)
    \/ Prosegue
    \/ InsertServer

\* Two connections running document statements concurrently.
SpecTx == Init /\ [][NextTx]_vars

NextTxLungo ==
    \/ Avvia(MaxTrxLungo)
    \/ Prosegue
    \/ InsertServer

\* The same with one statement more.
SpecTxLungo == Init /\ [][NextTxLungo]_vars

----------------------------------------------------------------------------
(* The browser prototype: routes/+page.svelte *)

\* The tables, which no handler of the prototype touches (last excepted:
\* it also records the handler that ran last and how it ended).
database == <<ruoli, permessi, utenti, server, documenti, auto, tx, tipi, log>>

\* Bounds on the documents the page holds and on the times localStorage
\* refuses a write.
MaxDocs == 2
MaxErrori == 1

\* String.prototype.toLowerCase on the letters A-Z.
toLowerCase(s) == [i \in DOMAIN s |-> IF s[i] >= 65 /\ s[i] <= 90 THEN s[i] + 32 ELSE s[i]]

\* String.prototype.includes
includes(s, t) == \E i \in 0 .. (Len(s) - Len(t)) : SubSeq(s, i + 1, i + Len(t)) = t

\* a < b on strings: code unit by code unit, a proper prefix first.
StrLt(a, b) ==
    \E k \in 0 .. (IF Len(a) < Len(b) THEN Len(a) ELSE Len(b)) :
        /\ \A i \in 1 .. k : a[i] = b[i]
        /\ \/ k = Len(a) /\ k < Len(b)
           \/ k < Len(a) /\ k < Len(b) /\ a[k + 1] < b[k + 1]

\* new Date().toISOString().slice(0, 10): the day the handlers run,
\* "2026-11-02", and the day before.
Oggi == <<50, 48, 50, 54, 45, 49, 49, 45, 48, 50>>
Ieri == <<50, 48, 50, 54, 45, 49, 49, 45, 48, 49>>

\* type Doc, without fileData, mime and uploadedAt, which no handler reads.
Doc(id, name, type, date, client, status) ==
    [id |-> id, name |-> name, type |-> type, date |-> date, client |-> client,
     status |-> status]

\* `${doc.name} ${doc.type || ''} ${doc.client || ''} ${doc.date || ''}`.toLowerCase()
searchText(doc) ==
    toLowerCase(doc.name \o <<32>> \o doc.type \o <<32>> \o doc.client \o <<32>> \o doc.date)

\* The callback of documents.filter in applyFilters.
Passa(doc, f) ==
    /\ ~(f.search # << >> /\ ~includes(searchText(doc), toLowerCase(f.search)))
    /\ ~(f.type # << >> /\ toLowerCase(doc.type) # toLowerCase(f.type))
    /\ ~(f.status # "" /\ doc.status # f.status)

\* documents.filter(callback), order kept.
Filtra(docs, f) == LET Test(doc) == Passa(doc, f) IN SelectSeq(docs, Test)

\* function applyFilters()
applyFilters(pg) == [pg EXCEPT !.filtered = Filtra(pg.documents, pg.filters)]

\* function save(): setItem stores the list (ok) or throws, QuotaExceededError
\* for one.  When it throws, applyFilters is not reached: "frontend" catches
\* and alerts, "app" lets the exception end the handler, whose last call
\* save() is.
save(pg, ok) ==
    IF ok THEN applyFilters([pg EXCEPT !.item = [tipo |-> "json", docs |-> pg.documents]])
    ELSE [pg EXCEPT !.errori = @ + 1]

\* doc.date && doc.date < today && doc.status !== 'scaduto'
Scade(doc) == doc.date # << >> /\ StrLt(doc.date, Oggi) /\ doc.status # "scaduto"

\* function checkExpirations()
checkExpirations(pg, ok) ==
    LET docs == [i \in DOMAIN pg.documents |->
                    IF Scade(pg.documents[i])
                    THEN [pg.documents[i] EXCEPT !.status = "scaduto"]
                    ELSE pg.documents[i]]
        hasChanges == \E i \in DOMAIN pg.documents : Scade(pg.documents[i])
        p1 == [pg EXCEPT !.documents = docs]
    IN  IF hasChanges THEN save(p1, ok) ELSE p1

\* The reactive statement, run once in the flush that follows a handler that
\* assigned documents.  "frontend": $: if (documents) checkExpirations(), and
\* an array is always truthy.  "app": $: checkExpirations() names no variable,
\* so it ran when the component was constructed, on the empty list, and is
\* never run again.
Reattivo(pg, ok) == IF pg.variante = "frontend" THEN checkExpirations(pg, ok) ELSE pg

\* setItem may throw while localStorage has refused fewer than MaxErrori
\* writes.
PuoFallire(ok) == ok \/ page.errori < MaxErrori

\* onMount, and the flush after it; ok tells whether setItem succeeds.
onMount(ok) ==
    /\ ~page.mounted
    /\ PuoFallire(ok)
    /\ LET raw == IF page.item.tipo = "assente" THEN << >> ELSE page.item.docs
           p0 == [page EXCEPT !.mounted = TRUE]
       IN  IF page.variante = "frontend"
           THEN IF page.item.tipo = "corrotto"
                THEN /\ page' = Reattivo([p0 EXCEPT !.loadingError = "Impossibile caricare i documenti salvati",
                                                     !.documents = << >>, !.filtered = << >>,
                                                     !.isLoading = FALSE], ok)
                     /\ last' = Stmt("onMount", << >>, "SyntaxError")
                ELSE /\ page' = Reattivo([applyFilters(checkExpirations([p0 EXCEPT !.documents = raw], ok))
                                             EXCEPT !.isLoading = FALSE], ok)
                     /\ last' = Stmt("onMount", << >>, "ok")
           ELSE IF page.item.tipo = "corrotto"
                THEN /\ page' = p0
                     /\ last' = Stmt("onMount", << >>, "SyntaxError")
                ELSE /\ page' = applyFilters([p0 EXCEPT !.documents = raw])
                     /\ last' = Stmt("onMount", << >>, "ok")
    /\ UNCHANGED <<database, filtersComp, uploadForm>>

\* function addDocument(doc), and the flush after it
addDocument(doc, ok) ==
    /\ page.mounted
    /\ PuoFallire(ok)
    /\ Len(page.documents) < MaxDocs
    /\ page' = Reattivo(save([page EXCEPT !.documents = <<doc>> \o @], ok), ok)
    /\ last' = Stmt("addDocument", <<doc.id>>, IF ok THEN "ok" ELSE "QuotaExceededError")
    /\ UNCHANGED <<database, filtersComp, uploadForm>>

\* function deleteDocument(id), and the flush after it.  "frontend" returns
\* early when no document has the id; "app" filters and saves all the same.
deleteDocument(id, ok) ==
    /\ page.mounted
    /\ PuoFallire(ok)
    /\ LET Altro(d) == d.id # id
           trovato == \E i \in DOMAIN page.documents : page.documents[i].id = id
       IN  IF page.variante = "frontend" /\ ~trovato
           THEN /\ page' = page
                /\ last' = Stmt("deleteDocument", <<id>>, "non trovato")
           ELSE /\ page' = Reattivo(save([page EXCEPT !.documents = SelectSeq(@, Altro)], ok), ok)
                /\ last' = Stmt("deleteDocument", <<id>>,
                                IF ok THEN "ok" ELSE "QuotaExceededError")
    /\ UNCHANGED <<database, filtersComp, uploadForm>>

\* function onFilter(newFilters)
onFilter(newFilters) ==
    /\ page.mounted
    /\ page' = applyFilters([page EXCEPT !.filters = newFilters])
    /\ last' = Stmt("onFilter", << >>, "ok")
    /\ UNCHANGED <<database, filtersComp, uploadForm>>

\* The documents the upload form hands over: name "A", type unset or "A",
\* client unset or "b", the date unset, yesterday or today, status 'attivo'
\* (the form's default).  Stored lists also hold 'scaduto'.
TipiDoc == {<< >>, <<65>>}
Clienti == {<< >>, <<98>>}
Date == {<< >>, Ieri, Oggi}

\* genId(): an id no document of the list has.
NuovoId(docs) ==
    CHOOSE n \in 1 .. (MaxDocs + 1) :
        /\ \A i \in DOMAIN docs : docs[i].id # n
        /\ \A m \in 1 .. (n - 1) : \E i \in DOMAIN docs : docs[i].id = m

\* The filters the Filters component sends: search "" or "B", type "" or
\* "a", any status or 'scaduto'.
FiltriScelti == [search : {<< >>, <<66>>}, type : {<< >>, <<97>>}, status : {"", "scaduto"}]

\* What localStorage holds when the page opens: nothing, something that is
\* not JSON, or a list saved before with a document dated yesterday.
ItemIniziali ==
    {NoItem, [tipo |-> "corrotto", docs |-> << >>]}
    \cup {[tipo |-> "json", docs |-> <<Doc(1, <<65>>, << >>, Ieri, <<98>>, st)>>] :
              st \in {"attivo", "scaduto"}}

InitPage ==
    /\ SeedState
    /\ page \in {PageNew(v, it) : v \in {"frontend", "app"}, it \in ItemIniziali}
    /\ filtersComp = FiltersNew
    /\ uploadForm = UploadFormNew("sync", {})

NextPage ==
    \/ \E ok \in BOOLEAN : onMount(ok)
    \/ \E n \in {<<65>>}, t \in TipiDoc, c \in Clienti, d \in Date, ok \in BOOLEAN :
           addDocument(Doc(NuovoId(page.documents), n, t, d, c, "attivo"), ok)
    \/ \E id \in 1 .. MaxDocs, ok \in BOOLEAN : deleteDocument(id, ok)
    \/ \E f \in FiltriScelti : onFilter(f)

\* The page in the browser: mount, then the user's uploads, deletions and
\* filter changes.
SpecPage == InitPage /\ [][NextPage]_vars

----------------------------------------------------------------------------
(* The browser prototype: Filters.svelte *)

\* export let debounceMs = 300, which the page passes as well.
DebounceMs == 300

\* Bounds: the clock's last instant (ms), the timers ever set, the onFilter
\* calls made at once by handlers.
MaxTempo == 600
MaxTimer == 2
MaxCalls == 2

\* String.prototype.trim, the space being the white space typed.
trim(s) ==
    LET idx == {i \in DOMAIN s : s[i] # 32}
    IN  IF idx = {} THEN << >>
        ELSE SubSeq(s, CHOOSE i \in idx : \A j \in idx : i <= j,
                       CHOOSE i \in idx : \A j \in idx : j <= i)

\* $: hasActiveFilters
hasActiveFilters(fc) == trim(fc.search) # << >> \/ trim(fc.type) # << >> \/ fc.status # ""

\* function applyFilters() of the component: onFilter is called with the
\* values the component holds now.
Filters_applyFilters(fc) ==
    [fc EXCEPT !.call = Some([search |-> trim(fc.search), type |-> trim(fc.type),
                              status |-> fc.status]),
               !.calls = @ + 1]

\* A clearTimeout that cancels nothing.
clearTimeout_Niente(timers, id) == timers

\* clearTimeout(id): the timer is no longer pending; an id that has fired or
\* was cleared is ignored.
clearTimeout(timers, id) == {t \in timers : t.id # id}

\* if (debounceTimer) clearTimeout(debounceTimer)
Cancella(fc) ==
    IF IsNull(fc.debounceTimer) THEN fc
    ELSE [fc EXCEPT !.timers = clearTimeout(@, Val(fc.debounceTimer))]

\* bind:value={search} and on:input={handleSearchInput}
handleSearchInput(text) ==
    /\ ~filtersComp.destroyed
    /\ filtersComp.nextTimer <= MaxTimer
    /\ filtersComp.now + DebounceMs <= MaxTempo
    /\ LET fc == Cancella([filtersComp EXCEPT !.search = text])
           id == fc.nextTimer
       IN  filtersComp' = [fc EXCEPT !.timers = @ \cup {[id |-> id, due |-> fc.now + DebounceMs]},
                                     !.debounceTimer = Some(id),
                                     !.nextTimer = id + 1,
                                     !.lastInput = Some(fc.now)]
    /\ last' = Stmt("handleSearchInput", <<text>>, "ok")
    /\ UNCHANGED <<database, page, uploadForm>>

\* bind:value={type} and on:input={handleTypeChange}
handleTypeChange(text) ==
    /\ ~filtersComp.destroyed
    /\ filtersComp.calls < MaxCalls
    /\ filtersComp' = Filters_applyFilters([filtersComp EXCEPT !.type = text])
    /\ last' = Stmt("handleTypeChange", <<text>>, "ok")
    /\ UNCHANGED <<database, page, uploadForm>>

\* bind:value={status} and on:change={handleStatusChange}
handleStatusChange(st) ==
    /\ ~filtersComp.destroyed
    /\ filtersComp.calls < MaxCalls
    /\ filtersComp' = Filters_applyFilters([filtersComp EXCEPT !.status = st])
    /\ last' = Stmt("handleStatusChange", <<st>>, "ok")
    /\ UNCHANGED <<database, page, uploadForm>>

\* function resetFilters(), behind a button disabled={!hasActiveFilters}
resetFilters ==
    /\ ~filtersComp.destroyed
    /\ hasActiveFilters(filtersComp)
    /\ filtersComp.calls < MaxCalls
    /\ filtersComp' = Filters_applyFilters([Cancella(filtersComp) EXCEPT
                          !.debounceTimer = Null,
                          !.search = << >>, !.type = << >>, !.status = ""])
    /\ last' = Stmt("resetFilters", << >>, "ok")
    /\ UNCHANGED <<database, page, uploadForm>>

\* The three tag-remove buttons: on:click={() => { search = ''; applyFilters(); }},
\* each shown while its filter is set.
rimuoviTag(campo) ==
    /\ ~filtersComp.destroyed
    /\ filtersComp.calls < MaxCalls
    /\ \/ /\ campo = "search"
          /\ trim(filtersComp.search) # << >>
          /\ filtersComp' = Filters_applyFilters([filtersComp EXCEPT !.search = << >>])
       \/ /\ campo = "type"
          /\ trim(filtersComp.type) # << >>
          /\ filtersComp' = Filters_applyFilters([filtersComp EXCEPT !.type = << >>])
       \/ /\ campo = "status"
          /\ filtersComp.status # ""
          /\ filtersComp' = Filters_applyFilters([filtersComp EXCEPT !.status = ""])
    /\ last' = Stmt("rimuoviTag", <<campo>>, "ok")
    /\ UNCHANGED <<database, page, uploadForm>>

\* onDestroy
onDestroy ==
    /\ ~filtersComp.destroyed
    /\ filtersComp' = [Cancella(filtersComp) EXCEPT !.destroyed = TRUE]
    /\ last' = Stmt("onDestroy", << >>, "ok")
    /\ UNCHANGED <<database, page, uploadForm>>

\* The callback of setTimeout: () => { applyFilters(); }.  The browser runs it
\* once, at its due time or later.
scatta ==
    /\ \E t \in filtersComp.timers :
          /\ t.due <= filtersComp.now
          /\ filtersComp' = Filters_applyFilters([filtersComp EXCEPT !.timers = @ \ {t}])
          /\ last' = Stmt("setTimeout", <<t.id>>, "ok")
    /\ UNCHANGED <<database, page, uploadForm>>

\* Time passes, 150 ms at a time: less than debounceMs.
Passi == {150}

tick ==
    /\ \E d \in Passi :
          /\ filtersComp.now + d <= MaxTempo
          /\ filtersComp' = [filtersComp EXCEPT !.now = @ + d]
          /\ last' = Stmt("tick", <<d>>, "ok")
    /\ UNCHANGED <<database, page, uploadForm>>

\* What the user types: search "" or " a", type "" or "A ", status any or
\* 'attivo'.
TestiRicerca == {<< >>, <<32, 97>>}

NextFilters ==
    \/ \E text \in TestiRicerca : handleSearchInput(text)
    \/ \E text \in {<< >>, <<65, 32>>} : handleTypeChange(text)
    \/ \E st \in {"", "attivo"} : handleStatusChange(st)
    \/ resetFilters
    \/ \E campo \in {"search", "type", "status"} : rimuoviTag(campo)
    \/ onDestroy
    \/ scatta
    \/ tick

\* The Filters component under the user's hands; the browser lets time pass
\* and runs a timer that is due.
SpecFilters == Init /\ [][NextFilters]_vars /\ WF_vars(scatta) /\ WF_vars(tick)

----------------------------------------------------------------------------
(* The browser prototype: UploadForm *)

\* maxFileSize={10}, the default of the prop as well; in MB.
maxFileSize == 10

\* The fields of the form the user fills.
Campi(uf) ==
    [file |-> uf.file, type |-> uf.type, date |-> uf.date, client |-> uf.client,
     status |-> uf.status]

\* function resetForm()
resetForm(uf) ==
    [uf EXCEPT !.file = Null, !.type = << >>, !.date = << >>, !.client = << >>,
               !.status = "attivo", !.error = ""]

\* function onFileChange(e): sel is input.files[0], or NULL when the picker
\* was closed without a file.  The input is disabled while isLoading.
onFileChange(sel) ==
    /\ ~uploadForm.isLoading
    /\ LET uf == [uploadForm EXCEPT !.error = ""]
           maxBytes == maxFileSize * 1024 * 1024
       IN  uploadForm' =
              IF IsNull(sel) THEN [uf EXCEPT !.file = Null]
              ELSE IF Val(sel).size > maxBytes
              THEN [uf EXCEPT !.error = "File troppo grande", !.file = Null]
              ELSE IF uf.allowedTypes # {} /\ Val(sel).type \notin uf.allowedTypes
              THEN [uf EXCEPT !.error = "Tipo file non consentito", !.file = Null]
              ELSE [uf EXCEPT !.file = sel]
    /\ last' = Stmt("onFileChange", << >>, "ok")
    /\ UNCHANGED <<database, page, filtersComp>>

\* bind:value on the type, date and client inputs and on the status select,
\* all disabled while isLoading.
bindValue(campo, v) ==
    /\ ~uploadForm.isLoading
    /\ uploadForm' = [uploadForm EXCEPT ![campo] = v]
    /\ last' = Stmt("bindValue", <<campo>>, "ok")
    /\ UNCHANGED <<database, page, filtersComp>>

\* A submit whose catch also resets the form.
Fallito_Azzera(uf, chiamate) ==
    [resetForm(uf) EXCEPT !.error = "Errore", !.isLoading = FALSE, !.pc = "idle",
                          !.submit = Some([Val(@) EXCEPT !.chiamate = chiamate])]

\* catch (err) { error = ... } finally { isLoading = false }; chiamate is the
\* number of times the submit has called onAdd.
Fallito(uf, chiamate) ==
    [uf EXCEPT !.error = "Errore", !.isLoading = FALSE, !.pc = "idle",
               !.submit = Some([Val(@) EXCEPT !.chiamate = chiamate])]

\* resetForm() after onAdd, then finally { isLoading = false }
Riuscito(uf, chiamate) ==
    [resetForm(uf) EXCEPT !.isLoading = FALSE, !.pc = "idle",
                          !.submit = Some([Val(@) EXCEPT !.chiamate = chiamate])]

\* async function onSubmit(e), up to its await.  "sync" awaits
\* toDataURL(file); "await" calls onAdd(file, metadata) and awaits what it
\* returns.  prima keeps the fields as the submit found them.
onSubmit ==
    /\ uploadForm.pc = "idle"
    /\ LET uf == [uploadForm EXCEPT !.error = "",
                                    !.submit = Some([chiamate |-> 0, prima |-> Campi(uploadForm)])]
       IN  IF IsNull(uf.file)
           THEN /\ uploadForm' = [uf EXCEPT !.error = "Seleziona un file da caricare"]
                /\ last' = Stmt("onSubmit", << >>, "nessun file")
           ELSE /\ uploadForm' =
                     IF uf.variante = "sync"
                     THEN [uf EXCEPT !.isLoading = TRUE, !.pc = "toDataURL"]
                     ELSE [uf EXCEPT !.isLoading = TRUE, !.pc = "onAdd",
                                     !.submit = Some([Val(@) EXCEPT !.chiamate = 1])]
                /\ last' = Stmt("onSubmit", << >>, "await")
    /\ UNCHANGED <<database, page, filtersComp>>

\* "sync", after await toDataURL(file): the read has failed (letto false), or
\* the document is built and onAdd(doc) is called, which returns or throws.
dopoToDataURL(letto, aggiunto) ==
    /\ uploadForm.pc = "toDataURL"
    /\ IF ~letto
       THEN /\ uploadForm' = Fallito(uploadForm, 0)
            /\ last' = Stmt("onSubmit", << >>, "errore")
       ELSE IF aggiunto
       THEN /\ uploadForm' = Riuscito(uploadForm, 1)
            /\ last' = Stmt("onSubmit", << >>, "ok")
       ELSE /\ uploadForm' = Fallito(uploadForm, 1)
            /\ last' = Stmt("onSubmit", << >>, "errore")
    /\ UNCHANGED <<database, page, filtersComp>>

\* "await", after await onAdd(...): onAdd has succeeded, or it has thrown or
\* rejected.
dopoOnAdd(aggiunto) ==
    /\ uploadForm.pc = "onAdd"
    /\ IF aggiunto
       THEN /\ uploadForm' = Riuscito(uploadForm, 1)
            /\ last' = Stmt("onSubmit", << >>, "ok")
       ELSE /\ uploadForm' = Fallito(uploadForm, 1)
            /\ last' = Stmt("onSubmit", << >>, "errore")
    /\ UNCHANGED <<database, page, filtersComp>>

\* What the user enters in the other fields.
ValoriCampo ==
    [type |-> {<< >>, <<65, 32>>}, date |-> {<< >>, Ieri}, client |-> {<< >>, <<98>>},
     status |-> {"attivo", "in revisione", "scaduto"}]

\* allowedTypes as the parent passes it: none (the default), or PDF only.
InitUpload ==
    /\ SeedState
    /\ page = PageNew("frontend", NoItem)
    /\ filtersComp = FiltersNew
    /\ uploadForm \in {UploadFormNew(v, a) : v \in {"sync", "await"}, a \in {{}, {"application/pdf"}}}

\* The files the user picks are of exactly 10 MB or one byte more, PDF or PNG.
NextUpload ==
    \/ \E sel \in {Null} \cup {Some(f) : f \in [size : {10485760, 10485761},
                                                 type : {"application/pdf", "image/png"}]} :
          onFileChange(sel)
    \/ \E campo \in DOMAIN ValoriCampo : \E v \in ValoriCampo[campo] : bindValue(campo, v)
    \/ onSubmit
    \/ \E letto, aggiunto \in BOOLEAN : dopoToDataURL(letto, aggiunto)
    \/ \E aggiunto \in BOOLEAN : dopoOnAdd(aggiunto)

\* The upload form under the user's hands, in both its copies.
SpecUpload == InitUpload /\ [][NextUpload]_vars

----------------------------------------------------------------------------
(* Claims on capacity accounting, checked under SpecDoc *)

\* What a location's figure has to be: the bytes of its documents whose
\* stato is not 'eliminato' (an unset size counts for nothing), in the
\* column's unit.
BytesNonEliminati(docs, L) ==
    SumOver(docs, {d \in DOMAIN docs : /\ docs[d].id_server = L
                                        /\ docs[d].stato # "eliminato"
                                        /\ ~IsNull(docs[d].dimensione_bytes)})

SpazioAtteso(docs, L) == GbCent(BytesNonEliminati(docs, L))

DimCent(row) ==
    IF IsNull(row.dimensione_bytes) THEN 0 ELSE GbCent(Val(row.dimensione_bytes))

TotaleSpazio(srv) ==
    LET RECURSIVE Tot(_)
        Tot(S) == IF S = {} THEN 0
                  ELSE LET x == CHOOSE y \in S : TRUE
                       IN  srv[x].spazio_usato_gb + Tot(S \ {x})
    IN  Tot(DOMAIN srv)

\* UPDATE documenti SET stato = 'eliminato' WHERE id_documento = d
SoftDelete(d) ==
    UpdateDocumento(d, documenti[d].id_server, documenti[d].dimensione_bytes, "eliminato")

\* UPDATE documenti SET stato = 'attivo' WHERE id_documento = d, on a deleted row
Restore(d) ==
    /\ documenti[d].stato = "eliminato"
    /\ UpdateDocumento(d, documenti[d].id_server, documenti[d].dimensione_bytes, "attivo")

\* UPDATE documenti SET id_server = B WHERE id_documento = d
Move(d, B) ==
    UpdateDocumento(d, B, documenti[d].dimensione_bytes, documenti[d].stato)

\* C1: for every storage location, after any sequence of document inserts,
\* updates and hard deletes, the stored used-space figure equals the sum of
\* the sizes of its documents that are not deleted.
C1_UsedSpaceEqualsSum ==
    \A L \in DOMAIN server : server[L].spazio_usato_gb = SpazioAtteso(documenti, L)

\* C2: soft-deleting a non-deleted document lowers its location's figure by
\* exactly the document's size; soft-deleting an already deleted document is
\* rejected and changes neither the figure nor the document.
C2_SoftDeleteOnce ==
    [][\A d \in DOMAIN documenti :
         SoftDelete(d) =>
           LET L == documenti[d].id_server IN
           IF documenti[d].stato # "eliminato"
           THEN server'[L].spazio_usato_gb
                    = server[L].spazio_usato_gb - DimCent(documenti[d])
           ELSE /\ last'.esito # "ok"
                /\ UNCHANGED <<documenti, server>>]_vars

\* C3: moving a non-deleted document from A to B (A # B, same size) lowers
\* A's figure by the document's size, raises B's by the same amount, leaves
\* every other location's figure and the total over all locations unchanged.
C3_MoveShiftsSize ==
    [][\A d \in DOMAIN documenti : \A B \in DOMAIN server :
         (/\ B # documenti[d].id_server
          /\ documenti[d].stato # "eliminato"
          /\ Move(d, B)) =>
           LET A == documenti[d].id_server
               n == DimCent(documenti[d])
           IN  /\ server'[A].spazio_usato_gb = server[A].spazio_usato_gb - n
               /\ server'[B].spazio_usato_gb = server[B].spazio_usato_gb + n
               /\ \A X \in DOMAIN server \ {A, B} : server'[X] = server[X]
               /\ TotaleSpazio(server') = TotaleSpazio(server)]_vars

\* C4: on a location with no documents and a figure of 0, creating a document
\* of 1,000,000 bytes makes the figure non-zero (about 0.001 GB); soft-deleting
\* that document returns the figure to 0; restoring it returns the figure to
\* the value it had after the create.
C4_MegabyteScenario ==
    [][\A L \in DOMAIN server :
         /\ (/\ server[L].spazio_usato_gb = 0
             /\ \A d \in DOMAIN documenti : documenti[d].id_server # L
             /\ InsertDocumento(L, Some(1000000), "attivo"))
            => server'[L].spazio_usato_gb > 0
         /\ \A d \in DOMAIN documenti :
              (/\ documenti[d] = DocRow(L, Some(1000000), "attivo")
               /\ \A e \in DOMAIN documenti \ {d} : documenti[e].id_server # L
               /\ SoftDelete(d))
              => server'[L].spazio_usato_gb = 0
         /\ \A d \in DOMAIN documenti :
              (/\ documenti[d] = DocRow(L, Some(1000000), "eliminato")
               /\ \A e \in DOMAIN documenti \ {d} : documenti[e].id_server # L
               /\ Restore(d))
              => /\ server'[L].spazio_usato_gb > 0
                 /\ server'[L].spazio_usato_gb = SpazioAtteso(documenti', L)]_vars

----------------------------------------------------------------------------
(* Claims on concurrent statements, checked under SpecTx and SpecTxLungo *)

\* The locations whose recalculation the row changes between two committed
\* states of documenti have caused: the location of an inserted row, of a
\* deleted row, and the old and new location of an updated row for which
\* the trigger's condition is true.
LocazioniRicalcolate(prima, dopo) ==
    {dopo[d].id_server : d \in DOMAIN dopo \ DOMAIN prima}
    \cup {prima[d].id_server : d \in DOMAIN prima \ DOMAIN dopo}
    \cup UNION {{prima[d].id_server, dopo[d].id_server} :
                  d \in {x \in DOMAIN prima \cap DOMAIN dopo :
                            UpdateCond(prima[x], dopo[x])}}

LocazioniDi(c) ==
    {r.id_server : r \in {Val(x) : x \in {tx[c].old, tx[c].new} \ {Null}}}

\* C6: of two concurrent statements on documents of the same location, once
\* both have committed the location's figure is the sum over its documents
\* that are not deleted, with the effects of both.
C6_ConcurrentBothCounted ==
    [][\A c \in Conn :
          (TxCommit(c) /\ tx[c].conc = "peer_committed")
            => \A L \in LocazioniDi(c) \cap DOMAIN server :
                  server'[L].spazio_usato_gb = SpazioAtteso(documenti', L)]_vars

----------------------------------------------------------------------------
(* Claims on the permission evaluator, checked under SpecVerifica *)

Negato == [esito |-> "ok", out |-> Some(FALSE)]
Concesso == [esito |-> "ok", out |-> Some(TRUE)]

Verifica(u, nome) == sp_verifica_permesso(utenti, permessi, u, nome)

\* C7: for every user whose attivo flag is false the evaluator returns
\* unauthorized for every capability name, whatever the role and its flags.
C7_InactiveUnauthorized ==
    \A u \in DOMAIN utenti : \A nome \in NomiChiesti :
        utenti[u].attivo = FALSE => Verifica(u, nome) = Negato

\* A call for a deactivated user whose role grants the capability asked for
\* has returned unauthorized.
C7_Witness ==
    /\ last.op = "sp_verifica_permesso"
    /\ last.arg[1] \in DOMAIN utenti
    /\ utenti[last.arg[1]].attivo = FALSE
    /\ \E p \in DOMAIN permessi :
          /\ permessi[p].id_ruolo = utenti[last.arg[1]].id_ruolo
          /\ CasePermesso(last.arg[2], permessi[p])
    /\ last.esito = "ok"
    /\ last.out = Some(FALSE)

\* C8: for every user, existing or not, active or not, and every capability
\* name outside the five recognised ones, a call of the evaluator returns
\* unauthorized as a normal result and never fails, in every reachable state
\* of the tables.
C8_UnknownNameNeverFails ==
    (last.op = "sp_verifica_permesso" /\ last.arg[2] \notin NomiPermesso)
        => (last.esito = "ok" /\ last.out = Some(FALSE))

\* C9: with the seeded roles and permission rows, an active user with role
\* user (1) is authorized for view only, an active manager (3) is authorized
\* for manage-users and an active admin (2) is denied manage-users.
C9_SeededRoles ==
    (ruoli = SeedRuoli /\ permessi = SeedPermessi) =>
      \A u \in DOMAIN utenti :
        utenti[u].attivo = TRUE =>
          /\ utenti[u].id_ruolo = 1 =>
               /\ Verifica(u, "visualizza") = Concesso
               /\ \A nome \in NomiPermesso \ {"visualizza"} : Verifica(u, nome) = Negato
          /\ utenti[u].id_ruolo = 3 => Verifica(u, "gestisci_utenti") = Concesso
          /\ utenti[u].id_ruolo = 2 => Verifica(u, "gestisci_utenti") = Negato

\* With the seeded tables, an active admin has asked for manage-users and
\* has been denied.
C9_Witness ==
    /\ ruoli = SeedRuoli
    /\ permessi = SeedPermessi
    /\ last.op = "sp_verifica_permesso"
    /\ last.arg[1] \in DOMAIN utenti
    /\ utenti[last.arg[1]] = [id_ruolo |-> 2, attivo |-> TRUE]
    /\ last.arg[2] = "gestisci_utenti"
    /\ last.out = Some(FALSE)

\* C23: with the seeded roles and permission rows, an active user is granted
\* exactly the capabilities the description of the user's role names: view
\* for user, view and modify for admin, all five for manager.
C23_SeededRowsMatchDescriptions ==
    (/\ ruoli = SeedRuoli
     /\ permessi = SeedPermessi
     /\ last.op = "sp_verifica_permesso"
     /\ last.arg[1] \in DOMAIN utenti
     /\ last.arg[2] \in NomiPermesso
     /\ utenti[last.arg[1]].attivo = TRUE)
        => /\ last.esito = "ok"
           /\ last.out = Some(last.arg[2] \in SeedDescrizioni[utenti[last.arg[1]].id_ruolo])

----------------------------------------------------------------------------
(* Claims on the role and permission tables, checked under SpecPerm *)

RigheDelRuolo(r) == {p \in DOMAIN permessi : permessi[p].id_ruolo = r}

\* C10: in every reachable state every role has exactly one permission row
\* referencing it, never zero and never more than one.
C10_OnePermessoPerRuolo ==
    \A r \in ruoli : Cardinality(RigheDelRuolo(r)) = 1

----------------------------------------------------------------------------
(* Claims on the foreign keys, checked under SpecRuoli and SpecRif *)

\* C11: deleting a role succeeds if and only if no user references it; on
\* success the role's permission rows are removed together with the role,
\* and on rejection the role, its permission rows and all users are left
\* unchanged.
C11_DeleteRuoloRestrictCascade ==
    [][\A r \in RuoloIds :
          DeleteRuolo(r) =>
             LET usato == \E u \in DOMAIN utenti : utenti[u].id_ruolo = r
             IN  /\ (last'.esito = "ok") <=> ~usato
                 /\ ~usato =>
                       /\ r \notin ruoli'
                       /\ ruoli' = ruoli \ {r}
                       /\ \A p \in DOMAIN permessi :
                             IF permessi[p].id_ruolo = r
                             THEN p \notin DOMAIN permessi'
                             ELSE p \in DOMAIN permessi' /\ permessi'[p] = permessi[p]
                       /\ utenti' = utenti
                 /\ usato =>
                       /\ ruoli' = ruoli
                       /\ permessi' = permessi
                       /\ utenti' = utenti]_vars

\* A seeded role has been deleted after its users were, and a permission
\* row went with it.
C11_Witness ==
    /\ last.op = "delete_ruolo"
    /\ last.esito = "ok"
    /\ last.arg[1] \in SeedRuoli
    /\ last.arg[1] \notin ruoli
    /\ \E p \in DOMAIN SeedPermessi : p \notin DOMAIN permessi

\* The documents that reference type t, location s; those not soft-deleted.
DocDelTipo(t) == {d \in DOMAIN documenti : documenti[d].id_tipo = t}
DocDelServer(s) == {d \in DOMAIN documenti : documenti[d].id_server = s}
NonEliminati(ds) == {d \in ds : documenti[d].stato # "eliminato"}

\* C12: deleting a document type or a storage location referenced by at
\* least one non-deleted document fails with the foreign-key error and
\* changes nothing; deleting one referenced by no document succeeds.
C12_DeleteTipoServerRestrict ==
    [][/\ \A t \in TipiScelti :
            DeleteTipo(t) =>
               /\ NonEliminati(DocDelTipo(t)) # {} =>
                     /\ last'.esito = "ER_ROW_IS_REFERENCED"
                     /\ UNCHANGED <<tipi, server, documenti, utenti, log>>
               /\ DocDelTipo(t) = {} =>
                     /\ last'.esito = "ok"
                     /\ tipi' = tipi \ {t}
                     /\ UNCHANGED <<server, documenti>>
       /\ \A s \in ServerIds :
            DeleteServer(s) =>
               /\ NonEliminati(DocDelServer(s)) # {} =>
                     /\ last'.esito = "ER_ROW_IS_REFERENCED"
                     /\ UNCHANGED <<tipi, server, documenti, utenti, log>>
               /\ DocDelServer(s) = {} =>
                     /\ last'.esito = "ok"
                     /\ s \notin DOMAIN server'
                     /\ \A o \in DOMAIN server \ {s} :
                           o \in DOMAIN server' /\ server'[o] = server[o]
                     /\ UNCHANGED <<tipi, documenti>>]_vars

\* The delete of a type that a document which is not soft-deleted
\* references has been rejected.
C12_Witness ==
    /\ last.op = "delete_tipo"
    /\ last.esito = "ER_ROW_IS_REFERENCED"
    /\ last.arg[1] \in tipi
    /\ NonEliminati(DocDelTipo(last.arg[1])) # {}

\* C13: deleting a user who is the creator of at least one document fails
\* and changes nothing; deleting a user whom documents reference only as
\* last modifier succeeds, and every such document still exists with its
\* last-modifier reference NULL and its other columns unchanged.
C13_DeleteUtenteRestrictSetNull ==
    [][\A u \in Attori :
          DeleteUtente(u) =>
             LET creati == {d \in DOMAIN documenti : documenti[d].id_utente_creatore = u}
                 modificati == {d \in DOMAIN documenti :
                                   documenti[d].id_utente_modifica = Some(u)}
             IN  /\ creati # {} =>
                       /\ last'.esito = "ER_ROW_IS_REFERENCED"
                       /\ UNCHANGED <<utenti, documenti, server, log>>
                 /\ (creati = {} /\ modificati # {}) =>
                       /\ last'.esito = "ok"
                       /\ u \notin DOMAIN utenti'
                       /\ DOMAIN documenti' = DOMAIN documenti
                       /\ \A d \in DOMAIN documenti :
                             documenti'[d] =
                                IF d \in modificati
                                THEN [documenti[d] EXCEPT !.id_utente_modifica = Null]
                                ELSE documenti[d]
                       /\ server' = server]_vars

\* A user has been deleted and a document that an UPDATE by a user had
\* soft-deleted is there with no last modifier.
C13_Witness ==
    /\ last.op = "delete_utente"
    /\ last.esito = "ok"
    /\ last.arg[1] \notin DOMAIN utenti
    /\ \E d \in DOMAIN documenti :
          /\ documenti[d].id_utente_modifica = Null
          /\ documenti[d].stato = "eliminato"

\* C17: when a user or a document that log entries reference is physically
\* removed, the removal is not rejected because of those entries, every
\* entry is still there afterwards with only that reference set to NULL, and
\* the number of entries is unchanged.
C17_LogReferencesCleared ==
    [][/\ \A u \in Attori :
            (DeleteUtente(u) /\ \E l \in DOMAIN log : log[l].id_utente = Some(u)) =>
               /\ last'.esito # "ok" =>
                     \E d \in DOMAIN documenti : documenti[d].id_utente_creatore = u
               /\ last'.esito = "ok" =>
                     /\ u \notin DOMAIN utenti'
                     /\ DOMAIN log' = DOMAIN log
                     /\ \A l \in DOMAIN log :
                           log'[l] = IF log[l].id_utente = Some(u)
                                     THEN [log[l] EXCEPT !.id_utente = Null]
                                     ELSE log[l]
       /\ \A d \in DocIds :
            (DeleteDocumento(d) /\ \E l \in DOMAIN log : log[l].id_documento = Some(d)) =>
               /\ last'.esito = "ok"
               /\ d \notin DOMAIN documenti'
               /\ DOMAIN log' = DOMAIN log
               /\ \A l \in DOMAIN log :
                     log'[l] = IF log[l].id_documento = Some(d)
                               THEN [log[l] EXCEPT !.id_documento = Null]
                               ELSE log[l]]_vars

\* A document has been deleted and the entry written about it is still in
\* the log, its document reference NULL and its user reference kept.
C17_Witness ==
    /\ last.op = "delete_documento"
    /\ last.esito = "ok"
    /\ \E l \in DOMAIN log :
          /\ log[l].descrizione = Some(last.arg[1])
          /\ log[l].id_documento = Null
          /\ log[l].id_utente # Null
          /\ log[l].azione = "crea"

----------------------------------------------------------------------------
(* Claims on the document lifecycle, checked under SpecDoc *)

\* draft -> active -> archived, {draft, active, archived} -> deleted -> active
TransizioniAmmesse ==
    {<<"bozza", "attivo">>, <<"attivo", "archiviato">>,
     <<"bozza", "eliminato">>, <<"attivo", "eliminato">>, <<"archiviato", "eliminato">>,
     <<"eliminato", "attivo">>}

\* C14: the stato of a document changes only along the transitions of the
\* lifecycle; an UPDATE that asks for any other change of stato is rejected
\* and leaves the document unchanged.
C14_LifecycleTransitions ==
    [][\A d \in DOMAIN documenti \cap DOMAIN documenti' :
          documenti'[d].stato # documenti[d].stato =>
             <<documenti[d].stato, documenti'[d].stato>> \in TransizioniAmmesse]_vars

----------------------------------------------------------------------------
(* Claims on the activity log and on authorization, checked under SpecAudit *)

\* The action kind that matches a statement on a document.
AzioneDi(op, old, new) ==
    IF op = "insert_documento" THEN {"crea", "upload"}
    ELSE IF old.stato # "eliminato" /\ new.stato = "eliminato" THEN {"elimina"}
    ELSE IF old.stato = "eliminato" /\ new.stato = "attivo" THEN {"ripristina"}
    ELSE {"modifica"}

\* The entries of log' that are not in log.
Nuove == DOMAIN log' \ DOMAIN log

\* C15: every successful create, modify, soft-delete or restore of a document
\* adds exactly one log entry, whose azione matches the statement, whose
\* id_documento is the document and whose snapshot is not NULL.
C15_OneLogEntryPerMutation ==
    [][/\ \A d \in DOMAIN documenti' \ DOMAIN documenti :
            /\ Cardinality(Nuove) = 1
            /\ \A l \in Nuove :
                  /\ log'[l].azione \in AzioneDi("insert_documento", documenti'[d], documenti'[d])
                  /\ log'[l].id_documento = Some(d)
                  /\ log'[l].dati_nuovi # Null
       /\ \A d \in DOMAIN documenti \cap DOMAIN documenti' :
            documenti'[d] # documenti[d] =>
               /\ Cardinality(Nuove) = 1
               /\ \A l \in Nuove :
                     /\ log'[l].azione \in AzioneDi("update_documento", documenti[d], documenti'[d])
                     /\ log'[l].id_documento = Some(d)
                     /\ log'[l].dati_precedenti # Null
                     /\ log'[l].dati_nuovi # Null]_vars

\* C16: the log only grows, and the azione, descrizione, snapshots and
\* timestamp of an entry never change.
C16_LogAppendOnly ==
    [][/\ DOMAIN log \subseteq DOMAIN log'
       /\ \A l \in DOMAIN log :
             /\ log'[l].azione = log[l].azione
             /\ log'[l].descrizione = log[l].descrizione
             /\ log'[l].dati_precedenti = log[l].dati_precedenti
             /\ log'[l].dati_nuovi = log[l].dati_nuovi
             /\ log'[l].timestamp = log[l].timestamp]_vars

\* The capability is refused to user u.
Rifiutato(u, nome) == sp_verifica_permesso(utenti, permessi, u, nome) # Concesso

\* C19: a create or an update of a document by a user to whom the evaluator
\* refuses the capability (aggiungi for a create, rimuovi for a soft-delete,
\* modifica for another update), inactive users among them, is aborted and
\* leaves documents, figures and log unchanged.
C19_UnauthorizedNoEffect ==
    [][/\ \A d \in DOMAIN documenti' \ DOMAIN documenti :
            ~Rifiutato(documenti'[d].id_utente_creatore, "aggiungi")
       /\ \A u \in Attori, d \in DocIds, st \in StatiRif :
            (/\ d \in DOMAIN documenti
             /\ UpdateDocumentoDa(u, d, documenti[d].id_server,
                                   documenti[d].dimensione_bytes, st)
             /\ \/ st = "eliminato" /\ documenti[d].stato # "eliminato" /\ Rifiutato(u, "rimuovi")
                \/ st = documenti[d].stato /\ Rifiutato(u, "modifica"))
            => UNCHANGED <<documenti, server, log>>]_vars

----------------------------------------------------------------------------
(* Claims on storage locations, checked under SpecServer *)

\* C18: creating a document at, or moving a document to, a location that
\* does not exist or whose stato is offline is rejected: no row of documenti
\* is created or changed and no figure changes.
C18_OfflineOrMissingLocationRejected ==
    [][/\ \A srv \in ServerIds, dim \in DimServer, st \in StatiRif :
            (/\ InsertDocumentoDi(1, srv, 1, dim, st)
             /\ \/ srv \notin DOMAIN server
                \/ server[srv].stato = "offline")
            => /\ last'.esito # "ok"
               /\ UNCHANGED <<documenti, server>>
       /\ \A d \in DocIds, srv \in ServerIds :
            (/\ d \in DOMAIN documenti
             /\ srv # documenti[d].id_server
             /\ UpdateDocumentoDa(1, d, srv, documenti[d].dimensione_bytes, documenti[d].stato)
             /\ \/ srv \notin DOMAIN server
                \/ server[srv].stato = "offline")
            => /\ last'.esito # "ok"
               /\ UNCHANGED <<documenti, server>>]_vars

\* The true sum of location L is above its declared capacity.
OltreCapacita(srv, docs, L) ==
    /\ ~IsNull(srv[L].capacita_totale_gb)
    /\ SpazioAtteso(docs, L) > Val(srv[L].capacita_totale_gb)

\* C20: no create or update of a document is rejected because it takes a
\* location over its capacity: the statement succeeds and the location's
\* figure is the true sum, also when that sum is above the capacity.
C20_NeverBlockedByCapacity ==
    [][/\ \A srv \in ServerIds, dim \in DimServer, st \in StatiRif :
            (InsertDocumentoDi(1, srv, 1, dim, st) /\ srv \in DOMAIN server)
            => /\ last'.esito = "ok"
               /\ OltreCapacita(server', documenti', srv) =>
                     server'[srv].spazio_usato_gb = SpazioAtteso(documenti', srv)
       /\ \A d \in DocIds, srv \in ServerIds, st \in StatiRif :
            (/\ d \in DOMAIN documenti
             /\ srv \in DOMAIN server
             /\ UpdateDocumentoDa(1, d, srv, documenti[d].dimensione_bytes, st))
            => /\ last'.esito = "ok"
               /\ OltreCapacita(server', documenti', srv) =>
                     server'[srv].spazio_usato_gb = SpazioAtteso(documenti', srv)]_vars

----------------------------------------------------------------------------
(* Claims on the prototype page, checked under SpecPage *)

\* The page of project-app/frontend is mounted.
PaginaFrontend == page.variante = "frontend" /\ page.mounted

\* The term occurs in the file name of some document of the list.  A Doc of
\* the prototype has a name and neither description nor tags.
NelNome(term, docs) ==
    \E i \in DOMAIN docs : includes(toLowerCase(docs[i].name), toLowerCase(term))

\* C21: a text search for a term that occurs in none of file name, description
\* and tags of any document returns the empty set (and one for a term that
\* occurs only in the tags of a document returns that document; a document of
\* the page has no tags to hold a term).
C21_SearchNameDescriptionTags ==
    (/\ PaginaFrontend
     /\ last.op = "onFilter"
     /\ page.filters.search # << >>
     /\ ~NelNome(page.filters.search, page.documents))
        => page.filtered = << >>

\* The document is to be shown under the filters f: each filter that is not
\* empty has to match.
Mostrato(doc, f) ==
    /\ f.search = << >> \/ includes(searchText(doc), toLowerCase(f.search))
    /\ f.type = << >> \/ toLowerCase(doc.type) = toLowerCase(f.type)
    /\ f.status = "" \/ doc.status = f.status

\* s is the sub-list of docs, order kept, of the documents to be shown.
SottoLista(s, docs, f) ==
    LET idx == {i \in DOMAIN docs : Mostrato(docs[i], f)}
    IN  /\ Len(s) = Cardinality(idx)
        /\ \A k \in DOMAIN s :
              \E i \in idx : /\ s[k] = docs[i]
                             /\ Cardinality({j \in idx : j < i}) = k - 1

\* C27: after every completed addDocument, deleteDocument, onFilter or expiry
\* check of the page, a failed write to localStorage included, filtered is the
\* sub-list of documents, in the same order, of the documents whose text
\* contains the search text, whose type equals the type filter (both without
\* regard to case) and whose status equals the status filter, an empty filter
\* being ignored.
C27_FilteredIsFilterOfDocuments ==
    PaginaFrontend => SottoLista(page.filtered, page.documents, page.filters)

\* The document's date is set and earlier than today.
Passato(doc) == doc.date # << >> /\ StrLt(doc.date, Oggi)

\* The document of the list docs that has the id of doc, if any.
Stesso(doc, docs) == {docs[i] : i \in {j \in DOMAIN docs : docs[j].id = doc.id}}

\* C28: once the page has loaded, and after every change of the list, every
\* document whose date is set and earlier than today has status 'scaduto';
\* the check changes no document whose date is unset or not in the past and
\* no field other than status; a second run changes nothing and saves
\* nothing.
C28_AutoExpiry ==
    /\ [](page.mounted =>
            /\ \A i \in DOMAIN page.documents :
                  Passato(page.documents[i]) => page.documents[i].status = "scaduto"
            /\ checkExpirations(page, TRUE) = page)
    /\ [][\A i \in DOMAIN page.documents : \A nuovo \in Stesso(page.documents[i], page'.documents) :
             LET doc == page.documents[i]
             IN  /\ [nuovo EXCEPT !.status = doc.status] = doc
                 /\ ~Passato(doc) => nuovo = doc]_vars

----------------------------------------------------------------------------
(* Claims on the failure of the log append, checked under SpecLog *)

\* C22: a CALL of sp_registra_log that fails (an azione the ENUM does not
\* have, a user or document that does not exist) leaves every document and
\* every used-space figure as the committed statements before it left them.
C22_LogFailureKeepsMutation ==
    [][(last'.op = "sp_registra_log" /\ last'.esito # "ok")
          => documenti' = documenti /\ server' = server]_vars

\* A log append has failed after a document was stored and counted.
C22_Witness ==
    /\ last.op = "sp_registra_log"
    /\ last.esito = "WARN_DATA_TRUNCATED"
    /\ \E d \in DOMAIN documenti : server[documenti[d].id_server].spazio_usato_gb > 0

----------------------------------------------------------------------------
(* Claims on the update trigger, checked under SpecDoc and SpecAggiorna *)

\* UPDATE documenti SET dimensione_bytes = dim WHERE id_documento = d
Resize(d, dim) ==
    UpdateDocumento(d, documenti[d].id_server, dim, documenti[d].stato)

\* C24: after an update that changes the size of a document and keeps its
\* location (the size set from NULL to a value and from a value to NULL
\* included), the location's figure equals the sum over its non-deleted
\* documents, the new size counted.
C24_ResizeRecalculates ==
    [][\A d \in DOMAIN documenti : \A dim \in DimensioniNullable :
         (dim # documenti[d].dimensione_bytes /\ Resize(d, dim)) =>
            LET L == documenti[d].id_server
            IN  server'[L].spazio_usato_gb = SpazioAtteso(documenti', L)]_vars

\* C25: an update of a document that changes neither its location nor its
\* size (its stato, say, or a column the figure does not depend on) leaves
\* the stored figure of every location unchanged.
C25_OtherUpdatesKeepFigures ==
    [][\A d \in DOMAIN documenti : \A st \in Stati :
         UpdateDocumento(d, documenti[d].id_server, documenti[d].dimensione_bytes, st)
            => \A L \in DOMAIN server :
                  server'[L].spazio_usato_gb = server[L].spazio_usato_gb]_vars

\* A counted document has been soft-deleted and its location's figure is
\* what it was.
C25_Witness ==
    /\ last.op = "update_documento"
    /\ last.esito = "ok"
    /\ LET d == last.arg[1]
       IN  /\ d \in DOMAIN documenti
           /\ documenti[d].stato = "eliminato"
           /\ documenti[d].dimensione_bytes = Some(5368710)
           /\ server[documenti[d].id_server].spazio_usato_gb > 0

\* The statement before this one was the same CALL.
StessaCall == last.op = "sp_aggiorna_spazio_server" /\ last' = last

----------------------------------------------------------------------------
(* Claims on the Filters component, checked under SpecFilters *)

\* The values the component holds, trimmed.
ValoriCorrenti(fc) ==
    [search |-> trim(fc.search), type |-> trim(fc.type), status |-> fc.status]

\* C29: at most one debounce timer is pending at any time; a search input
\* calls onFilter not at once but through its timer, which runs no earlier
\* than debounceMs after the last search input and is then the only call
\* scheduled, and which does run unless it is cancelled; every onFilter call
\* carries the trimmed search and type and the status the component holds at
\* the moment of the call; after resetFilters and after the component is
\* destroyed no timer set before is pending, and a destroyed component calls
\* onFilter no more.
C29_Debounce ==
    /\ [](Cardinality(filtersComp.timers) <= 1)
    /\ [][/\ last'.op = "handleSearchInput" => filtersComp'.calls = filtersComp.calls
          /\ last'.op = "setTimeout" =>
                /\ filtersComp.now >= Val(filtersComp.lastInput) + DebounceMs
                /\ filtersComp'.calls = filtersComp.calls + 1
                /\ filtersComp'.timers = {}
          /\ filtersComp'.calls # filtersComp.calls =>
                filtersComp'.call = Some(ValoriCorrenti(filtersComp'))
          /\ last'.op \in {"resetFilters", "onDestroy"} => filtersComp'.timers = {}
          /\ filtersComp.destroyed => filtersComp'.calls = filtersComp.calls]_vars
    /\ (filtersComp.timers # {}) ~> (filtersComp.timers = {})

\* After a burst of two search inputs the second timer has run and has
\* called onFilter with the trimmed text; the first never ran.
C29_Witness ==
    /\ last.op = "setTimeout"
    /\ last.arg = <<2>>
    /\ filtersComp.calls = 1
    /\ filtersComp.search = <<32, 97>>
    /\ filtersComp.call = Some([search |-> <<97>>, type |-> << >>, status |-> ""])
    /\ filtersComp.now < 2 * DebounceMs

----------------------------------------------------------------------------
(* Claims on the upload form, checked under SpecUpload *)

\* A submit has run to its end: nothing of it is awaited.
SubmitFinito == last.op = "onSubmit" /\ uploadForm.pc = "idle"

\* C30: a submit calls onAdd at most once, and never when no file is
\* selected; the selected file is set only if its size is at most
\* maxFileSize MB and allowedTypes is empty or contains its MIME type;
\* isLoading is false once a submit has finished, however it ended; after a
\* submit whose onAdd succeeded the form is reset, and after one that failed
\* the file and the fields are as they were and an error message is set.
C30_UploadSubmit ==
    LET uf == uploadForm IN
    /\ ~IsNull(uf.submit) =>
          /\ Val(uf.submit).chiamate <= 1
          /\ IsNull(Val(uf.submit).prima.file) => Val(uf.submit).chiamate = 0
    /\ ~IsNull(uf.file) =>
          /\ Val(uf.file).size <= maxFileSize * 1024 * 1024
          /\ uf.allowedTypes = {} \/ Val(uf.file).type \in uf.allowedTypes
    /\ uf.pc = "idle" => uf.isLoading = FALSE
    /\ (SubmitFinito /\ last.esito = "ok") =>
          /\ Val(uf.submit).chiamate = 1
          /\ Campi(uf) = Campi(UploadFormNew(uf.variante, uf.allowedTypes))
    /\ (SubmitFinito /\ last.esito # "ok") =>
          /\ Campi(uf) = Val(uf.submit).prima
          /\ uf.error # ""

\* A submit of a file and filled fields has failed in onAdd: the form still
\* holds them, shows an error and is not loading.
C30_Witness ==
    /\ SubmitFinito
    /\ last.esito = "errore"
    /\ Val(uploadForm.submit).chiamate = 1
    /\ ~IsNull(uploadForm.file)
    /\ uploadForm.client = <<98>>
    /\ uploadForm.allowedTypes # {}

====
